---- MODULE Spec2Model ----
(***************************************************************************)
(* Model of the resource lifecycle orchestrator of 11-10-2026/deploy.py    *)
(* and its infrastructure/ helpers: the sqlite Resource Store (state.py),  *)
(* the stage functions create_vpc, create_alb, create_asg and              *)
(* create_scaling_policies driven by deploy, and the destroy walk.         *)
(*                                                                         *)
(* The cloud provider is the environment: every provider call answers      *)
(* either with success or with a ClientError carrying a code, chosen       *)
(* nondeterministically within what the provider's state allows.  One step *)
(* of the model is one provider call together with the local Store writes  *)
(* and control flow that follow it up to the next provider call.           *)
(***************************************************************************)
EXTENDS Integers, Sequences, FiniteSets, TLC

\* ------------------------------------------------------------------ bounds
MaxSubnets == 2      \* the config lists 1..MaxSubnets subnets
MaxDeploys == 2      \* deploy invocations in one behaviour
MaxReinvoke == 1     \* direct re-invocations of one stage function
MaxDV == 5           \* a delete answers DependencyViolation 0..MaxDV times
MaxStored == 2       \* deployments in a Store the look-ups start from
MaxInterfaces == 1   \* network interfaces a listing of a VPC returns

Envs == {"dev"}

VARIABLES
    deployments,  \* Store table deployments, in rowid order
    resources,    \* Store table resources, in rowid order
    clock,        \* datetime.utcnow() at the next create_deployment
    nextId,       \* source of provider-assigned identifiers and of uuid4()
    live,         \* provider: the objects that exist, [type, id], of the
                  \* types whose existence an answer of the provider depends on
    cfg,          \* config.yaml: [subnets, launch_template_id]
    pc,           \* the statement the running command is at
    loc,          \* the running command's local variables
    calls,        \* mutating provider calls issued by the running invocation
    created,      \* objects the running deploy created at the provider
    runs,         \* invocations the behaviour may still start, by command
    outcome,      \* how the last command ended
    dloc,         \* destroy: local variables of the walk
    dlog,         \* destroy: resource types of the teardown calls issued (the
                  \* deletes, and the gateway's detach), in order
    aloc,         \* destroy_all and destroy_vpc_and_resources: local variables
    state_file,   \* 14-10-2026: state.json, by environment
    deployer,     \* 14-10-2026: the InfrastructureDeployer of the invocation
    app           \* 14-10-2026: the dashboard's stress controller

storeVars == <<deployments, resources, clock>>
provVars == <<live, nextId>>
cmdVars == <<pc, loc, calls, created, runs, outcome>>
destroyVars == <<dloc, dlog>>
v14 == <<state_file, deployer, app>>
vars == <<storeVars, provVars, cfg, cmdVars, destroyVars, aloc, v14>>

\* ------------------------------------------------------------- identifiers
\* A provider identifier: <<prefix, environment, n>>.  Generated identifiers
\* (vpc-..., arn...) carry a fresh n; the identifiers that are deterministic
\* names (f"webapp-asg-{environment}") carry the environment.
NoId == <<"", "", 0>>
GenId(prefix, n) == <<prefix, "", n>>
NamedId(base, env) == <<base, env, 0>>
\* The identifier of an object this tool did not create, found by its name.
Adopted(prefix) == <<prefix, "adopted", 0>>

Obj(t, id) == [type |-> t, id |-> id]

\* The object types the code probes or whose names collide: the provider's
\* answers to describe_vpcs, describe_load_balancers, describe_key_pairs,
\* create_key_pair, create_launch_template, describe_launch_templates,
\* create_auto_scaling_group and put_scaling_policy depend on them.
Probed == {"vpc", "alb", "key_pair", "launch_template", "asg"}

\* ------------------------------------------------------------------- Store
Row(dep, t, id, name) ==
    [deployment_id |-> dep, resource_type |-> t, resource_id |-> id,
     resource_name |-> name]

\* A plain INSERT into a table without the UNIQUE constraint.
add_resource_insert(res, dep, t, id, name) ==
    Append(res, [deployment_id |-> dep, resource_type |-> t,
                 resource_id |-> id, resource_name |-> name])

\* INSERT OR REPLACE on UNIQUE(deployment_id, resource_type, resource_id):
\* a row with the same triple is deleted and the new row gets a new rowid.
add_resource(res, dep, t, id, name) ==
    Append(SelectSeq(res, LAMBDA r: ~(r.deployment_id = dep
                                       /\ r.resource_type = t
                                       /\ r.resource_id = id)),
           Row(dep, t, id, name))

get_resources(res, dep) ==
    SelectSeq(res, LAMBDA r: r.deployment_id = dep)

get_resources_of(res, dep, t) ==
    SelectSeq(res, LAMBDA r: r.deployment_id = dep /\ r.resource_type = t)

\* get_resource_by_type: the first row of the type, or none (an empty list).
has_resource(res, dep, t) == Len(get_resources_of(res, dep, t)) > 0
get_resource_by_type(res, dep, t) == get_resources_of(res, dep, t)[1]

\* INSERT OR REPLACE on the UNIQUE deployment_id.
create_deployment_replace(deps, env, id, now) ==
    Append(SelectSeq(deps, LAMBDA d: d.deployment_id # id),
           [environment |-> env, deployment_id |-> id,
            created_at |-> now, status |-> "in_progress"])

\* state.py:38-52: the INSERT fails with IntegrityError on a deployment_id
\* that exists, which is caught.
create_deployment(deps, env, id, now) ==
    IF \E i \in 1..Len(deps): deps[i].deployment_id = id
    THEN deps
    ELSE Append(deps, [environment |-> env, deployment_id |-> id,
                       created_at |-> now, status |-> "in_progress"])

update_deployment_status(deps, id, st) ==
    [i \in 1..Len(deps) |->
        IF deps[i].deployment_id = id
        THEN [deps[i] EXCEPT !.status = st] ELSE deps[i]]

\* DELETE FROM resources without the WHERE clause.
delete_all_rows(res, id) == SelectSeq(res, LAMBDA r: FALSE)

\* state.py:129-130 with the resource rows kept.
delete_no_rows(res, id) == res

\* state.py:129-130
delete_deployment_rows(res, id) ==
    SelectSeq(res, LAMBDA r: r.deployment_id # id)

delete_deployment_row(deps, id) ==
    SelectSeq(deps, LAMBDA d: d.deployment_id # id)

Range(s) == {s[i] : i \in 1..Len(s)}

\* The recorded objects of the probed types.
LiveOf(res) ==
    {Obj(res[k].resource_type, res[k].resource_id):
        k \in {j \in 1..Len(res): res[j].resource_type \in Probed}}

\* ------------------------------------------------------- command plumbing
NoLoc ==
    [caller |-> "", stage |-> "", dep |-> 0, env |-> "",
     vpc_id |-> NoId, igw_id |-> NoId, subnets |-> << >>, i |-> 0,
     route_table_id |-> NoId, alb_sg_id |-> NoId, ec2_sg_id |-> NoId,
     alb_arn |-> NoId, target_group_arn |-> NoId,
     key_name |-> NoId, launch_template_id |-> NoId, asg_name |-> NoId,
     policy_arn |-> NoId,
     err_at |-> -1,   \* mutating calls issued when a look-up first raised
     refused |-> FALSE]  \* a create call was answered name-already-in-use

NoLast == [type |-> "", attempts |-> 0, n |-> 0, final |-> "", result |-> ""]
\* What the retry loop of a gateway row did: its attempts, those whose
\* detach was not refused, the gateway deletes it issued, the answer to its last detach, and how it ended.
NoIgw == [attempts |-> 0, passed |-> 0, deletes |-> 0, detach |-> "", result |-> ""]
NoDloc ==
    [dep |-> 0, env |-> "", rows |-> << >>, idx |-> 0, attempt |-> 0,
     waited |-> 0, n |-> 0, final |-> "", last |-> NoLast,
     raised_by |-> <<"", "">>,
     detach |-> "",   \* the answer to the detach of the attempt in progress
     passed |-> 0,    \* attempts for the row whose detach was not refused
     deletes |-> 0,   \* delete_internet_gateway calls issued for the row
     igw |-> NoIgw]

\* destroy_all: what the operator typed, the deployments and VPCs it listed,
\* the environments and VPCs still to visit, the VPCs that failed, the locals
\* of the destroy_vpc_and_resources call in progress (its VPC, the listing it
\* is at, the seconds waited, the delete_vpc attempt and its answer), the
\* value the last
\* call returned, and whether some provider call of the run failed.  Of the
\* VPC the routine works on: whether it holds load balancers and target
\* groups and whether their deletes were issued (until the subnets are done),
\* the interfaces still to visit, and of the interface visited whether it is
\* attached to an instance, the state of that instance, and how the
\* terminate call and the wait for it ended.
NoNi == [attached |-> FALSE, state |-> "", terminate |-> "", wait |-> ""]

NoAloc ==
    [confirm |-> << >>, all_deployments |-> << >>, tracked_vpc_ids |-> {},
     all_vpc_ids |-> << >>, envs |-> << >>, todo |-> << >>, pass |-> 0,
     failed_vpcs |-> {}, vpc_id |-> NoId, waited |-> 0, attempt |-> 0,
     answer |-> "", phase |-> "", success |-> "", failed_call |-> FALSE,
     albs |-> "", tgs |-> "", nis |-> 0, ni |-> NoNi]

\* A provider call that answers: the state after it and after the local
\* statements up to the next provider call.  op is the mutating call issued
\* ("" for a describe call or a purely local step).
Ok(op, p, l, res, lv, cr, nid) ==
    /\ pc' = p
    /\ loc' = l
    /\ resources' = res
    /\ live' = {o \in lv: o.type \in Probed}
    /\ created' = cr
    /\ nextId' = nid
    /\ calls' = IF op = "" THEN calls ELSE Append(calls, op)
    /\ UNCHANGED <<deployments, clock, cfg, v14, aloc, runs, outcome, destroyVars>>

\* A look-up raised a ClientError that the stage swallows.
Swallowed(l) == IF l.err_at < 0 THEN [l EXCEPT !.err_at = Len(calls)] ELSE l

\* A create call was refused because an object of the name exists.
Refused(l) == [l EXCEPT !.refused = TRUE]

\* A control step: nothing but the position and the locals change.
Go(op, p, l) == Ok(op, p, l, resources, live, created, nextId)

\* A handler that re-raises without writing the status.
ErrNoStatus(op) ==
    /\ pc' = "idle"
    /\ outcome' = "raised"
    /\ calls' = IF op = "" THEN calls ELSE Append(calls, op)
    /\ UNCHANGED <<storeVars, live, nextId, cfg, v14, aloc, loc, created, runs, destroyVars>>

\* An exception leaves the stage function.  Under deploy it reaches the
\* handler of deploy.py:100-103: status failed, then re-raised.
Err(op) ==
    /\ pc' = "idle"
    /\ outcome' = "raised"
    /\ calls' = IF op = "" THEN calls ELSE Append(calls, op)
    /\ deployments' = IF loc.caller = "deploy"
                      THEN update_deployment_status(deployments, loc.dep, "failed")
                      ELSE deployments
    /\ UNCHANGED <<resources, clock, live, nextId, cfg, v14, aloc, loc, created, runs,
                   destroyVars>>

\* A mutating call with no effect the model tracks (modify_*, attach_*,
\* create_route, associate_route_table, authorize_*): answers or raises.
Plain(at, op, p, l) ==
    /\ pc = at
    /\ \/ Go(op, p, l)
       \/ Err(op)

\* ---------------------------------------------------------------- create_vpc
\* vpc.py:7-33: the Store record is reused when describe_vpcs confirms it and
\* subnet, alb-sg and ec2-sg rows exist; otherwise creation starts over.
vpc_alb_sg(sgs) ==
    LET named == SelectSeq(sgs, LAMBDA r: r.resource_name = "alb-sg")
    IN  IF Len(named) > 0 THEN named[Len(named)] ELSE sgs[1]

vpc_can_reuse(res, dep) ==
    LET sgs == get_resources_of(res, dep, "security_group")
    IN  /\ Len(get_resources_of(res, dep, "subnet")) > 0
        /\ Len(sgs) > 0
        /\ \E k \in 1..Len(sgs): sgs[k].resource_name = "ec2-sg"

cv_probe ==
    /\ pc = "create_vpc"
    /\ IF has_resource(resources, loc.dep, "vpc")
       THEN \E answer \in {"ok", "ClientError"}:
            LET ex == get_resource_by_type(resources, loc.dep, "vpc")
                subs == get_resources_of(resources, loc.dep, "subnet")
                sgs == get_resources_of(resources, loc.dep, "security_group")
                ec2 == SelectSeq(sgs, LAMBDA r: r.resource_name = "ec2-sg")
            IN  IF /\ answer = "ok"
                   /\ Obj("vpc", ex.resource_id) \in live
                   /\ vpc_can_reuse(resources, loc.dep)
                THEN Go("", "ret",
                        [loc EXCEPT !.vpc_id = ex.resource_id,
                                    !.subnets = [k \in 1..Len(subs) |-> subs[k].resource_id],
                                    !.alb_sg_id = vpc_alb_sg(sgs).resource_id,
                                    !.ec2_sg_id = ec2[Len(ec2)].resource_id])
                ELSE Go("", "cv_create_vpc", loc)
       ELSE Go("", "cv_create_vpc", loc)

cv_create_vpc ==
    /\ pc = "cv_create_vpc"
    /\ \/ LET id == GenId("vpc", nextId)
          IN  Ok("create_vpc", "cv_modify_hostnames", [loc EXCEPT !.vpc_id = id],
                 resources, live \cup {Obj("vpc", id)},
                 created \cup {Obj("vpc", id)}, nextId + 1)
       \/ Err("create_vpc")

cv_modify_hostnames ==
    Plain("cv_modify_hostnames", "modify_vpc_attribute", "cv_modify_support", loc)

\* vpc.py:50-55: the vpc row is written after both attribute calls.
cv_modify_support ==
    /\ pc = "cv_modify_support"
    /\ \/ Ok("modify_vpc_attribute", "cv_create_igw", loc,
             add_resource(resources, loc.dep, "vpc", loc.vpc_id, "webapp-vpc"),
             live, created, nextId)
       \/ Err("modify_vpc_attribute")

cv_create_igw ==
    /\ pc = "cv_create_igw"
    /\ \/ LET id == GenId("igw", nextId)
          IN  Ok("create_internet_gateway", "cv_attach_igw",
                 [loc EXCEPT !.igw_id = id], resources,
                 live \cup {Obj("internet_gateway", id)},
                 created \cup {Obj("internet_gateway", id)}, nextId + 1)
       \/ Err("create_internet_gateway")

\* vpc.py:60-67: the gateway row is written after the attach; the subnet
\* loop follows (it is empty when the config lists no subnet).
cv_attach_igw ==
    /\ pc = "cv_attach_igw"
    /\ \/ Ok("attach_internet_gateway",
             IF cfg.subnets > 0 THEN "cv_create_subnet" ELSE "cv_create_route_table",
             [loc EXCEPT !.i = 1],
             add_resource(resources, loc.dep, "internet_gateway", loc.igw_id, ""),
             live, created, nextId)
       \/ Err("attach_internet_gateway")

cv_create_subnet ==
    /\ pc = "cv_create_subnet"
    /\ \/ LET id == GenId("subnet", nextId)
          IN  Ok("create_subnet", "cv_modify_subnet",
                 [loc EXCEPT !.subnets = Append(@, id)], resources,
                 live \cup {Obj("subnet", id)},
                 created \cup {Obj("subnet", id)}, nextId + 1)
       \/ Err("create_subnet")

\* vpc.py:83-89.  The model appends to subnets at the create call; the code
\* appends after modify_subnet_attribute, and nothing reads it in between.
cv_modify_subnet ==
    /\ pc = "cv_modify_subnet"
    /\ \/ Ok("modify_subnet_attribute",
             IF loc.i < cfg.subnets THEN "cv_create_subnet" ELSE "cv_create_route_table",
             [loc EXCEPT !.i = @ + 1],
             add_resource(resources, loc.dep, "subnet",
                          loc.subnets[Len(loc.subnets)], "webapp-subnet"),
             live, created, nextId)
       \/ Err("modify_subnet_attribute")

cv_create_route_table ==
    /\ pc = "cv_create_route_table"
    /\ \/ LET id == GenId("rtb", nextId)
          IN  Ok("create_route_table", "cv_create_route",
                 [loc EXCEPT !.route_table_id = id], resources,
                 live \cup {Obj("route_table", id)},
                 created \cup {Obj("route_table", id)}, nextId + 1)
       \/ Err("create_route_table")

\* vpc.py:94-106: create_route, one associate_route_table per subnet, then
\* the route-table row.
rt_recorded(l) == add_resource(resources, l.dep, "route_table", l.route_table_id, "")

cv_create_route ==
    /\ pc = "cv_create_route"
    /\ \/ IF Len(loc.subnets) > 0
          THEN Go("create_route", "cv_associate", [loc EXCEPT !.i = 1])
          ELSE Ok("create_route", "cv_create_alb_sg", loc, rt_recorded(loc),
                  live, created, nextId)
       \/ Err("create_route")

cv_associate ==
    /\ pc = "cv_associate"
    /\ \/ IF loc.i < Len(loc.subnets)
          THEN Go("associate_route_table", "cv_associate", [loc EXCEPT !.i = @ + 1])
          ELSE Ok("associate_route_table", "cv_create_alb_sg", loc,
                  rt_recorded(loc), live, created, nextId)
       \/ Err("associate_route_table")

cv_create_alb_sg ==
    /\ pc = "cv_create_alb_sg"
    /\ \/ LET id == GenId("sg", nextId)
          IN  Ok("create_security_group", "cv_authorize_alb_sg",
                 [loc EXCEPT !.alb_sg_id = id], resources,
                 live \cup {Obj("security_group", id)},
                 created \cup {Obj("security_group", id)}, nextId + 1)
       \/ Err("create_security_group")

cv_authorize_alb_sg ==
    /\ pc = "cv_authorize_alb_sg"
    /\ \/ Ok("authorize_security_group_ingress", "cv_create_ec2_sg", loc,
             add_resource(resources, loc.dep, "security_group", loc.alb_sg_id, "alb-sg"),
             live, created, nextId)
       \/ Err("authorize_security_group_ingress")

cv_create_ec2_sg ==
    /\ pc = "cv_create_ec2_sg"
    /\ \/ LET id == GenId("sg", nextId)
          IN  Ok("create_security_group", "cv_authorize_ec2_sg",
                 [loc EXCEPT !.ec2_sg_id = id], resources,
                 live \cup {Obj("security_group", id)},
                 created \cup {Obj("security_group", id)}, nextId + 1)
       \/ Err("create_security_group")

cv_authorize_ec2_sg ==
    /\ pc = "cv_authorize_ec2_sg"
    /\ \/ Ok("authorize_security_group_ingress", "ret", loc,
             add_resource(resources, loc.dep, "security_group", loc.ec2_sg_id, "ec2-sg"),
             live, created, nextId)
       \/ Err("authorize_security_group_ingress")

create_vpc ==
    \/ cv_probe \/ cv_create_vpc \/ cv_modify_hostnames \/ cv_modify_support
    \/ cv_create_igw \/ cv_attach_igw \/ cv_create_subnet \/ cv_modify_subnet
    \/ cv_create_route_table \/ cv_create_route \/ cv_associate
    \/ cv_create_alb_sg \/ cv_authorize_alb_sg
    \/ cv_create_ec2_sg \/ cv_authorize_ec2_sg

\* ---------------------------------------------------------------- create_alb
\* alb.py:14-33: the recorded load balancer is reused when describe confirms
\* it and a target-group row exists.
ca_probe ==
    /\ pc = "create_alb"
    /\ IF has_resource(resources, loc.dep, "alb")
       THEN \E answer \in {"ok", "ClientError"}:
            LET ex == get_resource_by_type(resources, loc.dep, "alb")
            IN  IF /\ answer = "ok"
                   /\ Obj("alb", ex.resource_id) \in live
                   /\ has_resource(resources, loc.dep, "target_group")
                THEN Go("", "ret",
                        [loc EXCEPT !.alb_arn = ex.resource_id,
                                    !.target_group_arn =
                                        get_resource_by_type(resources, loc.dep,
                                                             "target_group").resource_id])
                ELSE Go("", "ca_create_lb", loc)
       ELSE Go("", "ca_create_lb", loc)

\* The load balancer is created, the add_resource of alb.py:55 left out.
alb_created_unrecorded(p) ==
    LET id == GenId("alb", nextId)
    IN  Ok("create_load_balancer", p, [loc EXCEPT !.alb_arn = id],
           resources,
           live \cup {Obj("alb", id)}, created \cup {Obj("alb", id)}, nextId + 1)

\* The load balancer is created and recorded (alb.py:41-55, 72-84).
alb_created(p) ==
    LET id == GenId("alb", nextId)
    IN  Ok("create_load_balancer", p, [loc EXCEPT !.alb_arn = id],
           add_resource(resources, loc.dep, "alb", id, "webapp-alb"),
           live \cup {Obj("alb", id)}, created \cup {Obj("alb", id)}, nextId + 1)

ca_create_lb ==
    /\ pc = "ca_create_lb"
    /\ \/ alb_created("ca_tg")
       \/ Go("create_load_balancer", "ca_describe_dup", Refused(loc))  \* DuplicateLoadBalancerName
       \/ Err("create_load_balancer")

\* alb.py:60-69: the load balancer of that name is looked up and adopted; an
\* empty listing or a ClientError leads to a second create under a new name.
ca_describe_dup ==
    /\ pc = "ca_describe_dup"
    /\ \/ LET id == Adopted("alb")
          IN  Ok("", "ca_tg", [loc EXCEPT !.alb_arn = id],
                 add_resource(resources, loc.dep, "alb", id, "webapp-alb"),
                 live \cup {Obj("alb", id)}, created, nextId)
       \/ Go("", "ca_create_lb2", loc)

ca_create_lb2 ==
    /\ pc = "ca_create_lb2"
    /\ \/ alb_created("ca_tg")
       \/ Err("create_load_balancer")

\* alb.py:89-91
ca_tg ==
    /\ pc = "ca_tg"
    /\ IF has_resource(resources, loc.dep, "target_group")
       THEN Go("", "ca_listener",
               [loc EXCEPT !.target_group_arn =
                   get_resource_by_type(resources, loc.dep, "target_group").resource_id])
       ELSE Go("", "ca_create_tg", loc)

ca_create_tg ==
    /\ pc = "ca_create_tg"
    /\ \/ LET id == GenId("tg", nextId)
          IN  Ok("create_target_group", "ca_listener",
                 [loc EXCEPT !.target_group_arn = id],
                 add_resource(resources, loc.dep, "target_group", id, "webapp-tg"),
                 live \cup {Obj("target_group", id)},
                 created \cup {Obj("target_group", id)}, nextId + 1)
       \/ Go("create_target_group", "ca_describe_tg_dup", Refused(loc)) \* DuplicateTargetGroupName
       \/ Err("create_target_group")

\* alb.py:117-125: adopt the target group of that name, or raise.
ca_describe_tg_dup ==
    /\ pc = "ca_describe_tg_dup"
    /\ \/ LET id == Adopted("tg")
          IN  Ok("", "ca_listener", [loc EXCEPT !.target_group_arn = id],
                 add_resource(resources, loc.dep, "target_group", id, "webapp-tg"),
                 live \cup {Obj("target_group", id)}, created, nextId)
       \/ Err("")

\* alb.py:127-128
ca_listener ==
    /\ pc = "ca_listener"
    /\ IF has_resource(resources, loc.dep, "listener")
       THEN Go("", "ret", loc)
       ELSE Go("", "ca_create_listener", loc)

\* alb.py:129-146: DuplicateListener is swallowed and leaves no row.
ca_create_listener ==
    /\ pc = "ca_create_listener"
    /\ \/ LET id == GenId("listener", nextId)
          IN  Ok("create_listener", "ret", loc,
                 add_resource(resources, loc.dep, "listener", id, ""),
                 live \cup {Obj("listener", id)},
                 created \cup {Obj("listener", id)}, nextId + 1)
       \/ Go("create_listener", "ret", Refused(loc))
       \/ Err("create_listener")

create_alb ==
    \/ ca_probe \/ ca_create_lb \/ ca_describe_dup \/ ca_create_lb2
    \/ ca_tg \/ ca_create_tg \/ ca_describe_tg_dup
    \/ ca_listener \/ ca_create_listener

\* ---------------------------------------------------------------- create_asg
KeyId(env) == NamedId("webapp-key", env)
AsgId(env) == NamedId("webapp-asg", env)
\* A launch template named webapp-lt-{env} exists at the provider.
LtNameLive(env) ==
    \E o \in live: o.type = "launch_template" /\ o.id[1] = "lt" /\ o.id[2] = env
\* The template config.yaml may reference (asg.launch_template_id).
CfgLt == <<"lt-config", "", 0>>

\* asg.py:105-124: which launch-template step follows the key pair.
lt_branch ==
    IF cfg.launch_template_id = NoId THEN "lt_describe_images"
    ELSE "asg_describe_cfg_lt"

\* ssh.py:9-16: an existing key pair of the name is recorded and used;
\* describe_key_pairs raises a ClientError for a name the provider does not
\* know, and any ClientError is swallowed.
ck_describe_key_pairs ==
    /\ pc = "create_asg"
    /\ \/ /\ Obj("key_pair", KeyId(loc.env)) \in live
          /\ Ok("", lt_branch, [loc EXCEPT !.key_name = KeyId(loc.env)],
                add_resource(resources, loc.dep, "key_pair", KeyId(loc.env),
                             "webapp-key"),
                live, created, nextId)
       \/ Go("", "ck_create_key_pair", Swallowed(loc))

\* ssh.py:17-29
ck_create_key_pair ==
    /\ pc = "ck_create_key_pair"
    /\ \/ /\ Obj("key_pair", KeyId(loc.env)) \notin live
          /\ Ok("create_key_pair", lt_branch,
                [loc EXCEPT !.key_name = KeyId(loc.env)],
                add_resource(resources, loc.dep, "key_pair", KeyId(loc.env),
                             "webapp-key"),
                live \cup {Obj("key_pair", KeyId(loc.env))},
                created \cup {Obj("key_pair", KeyId(loc.env))}, nextId)
       \/ Err("create_key_pair")

\* asg.py:115-124: a referenced template that describe confirms is used as
\* is; otherwise a template is created.
asg_describe_cfg_lt ==
    /\ pc = "asg_describe_cfg_lt"
    /\ \/ /\ Obj("launch_template", cfg.launch_template_id) \in live
          /\ Go("", "asg_create",
                [loc EXCEPT !.launch_template_id = cfg.launch_template_id])
       \/ Go("", "lt_describe_images", Swallowed(loc))

\* asg.py:8-24: get_latest_amazon_linux_ami raises on a ClientError and when
\* no image is listed.
lt_describe_images ==
    /\ pc = "lt_describe_images"
    /\ \/ Go("", "lt_create", loc)
       \/ Err("")

\* asg.py:66-91
lt_create ==
    /\ pc = "lt_create"
    /\ \/ /\ ~LtNameLive(loc.env)
          /\ LET id == <<"lt", loc.env, nextId>>
             IN  Ok("create_launch_template", "asg_create",
                    [loc EXCEPT !.launch_template_id = id],
                    add_resource(resources, loc.dep, "launch_template", id,
                                 "webapp-lt"),
                    live \cup {Obj("launch_template", id)},
                    created \cup {Obj("launch_template", id)}, nextId + 1)
       \/ /\ LtNameLive(loc.env)   \* InvalidLaunchTemplateName.AlreadyExistsException
          /\ Go("create_launch_template", "lt_describe_existing", Refused(loc))
       \/ Err("create_launch_template")

\* asg.py:84-91: the handler reads existing['LaunchTemplate'][0]; the
\* describe_launch_templates response holds its list under 'LaunchTemplates',
\* so the lookup raises KeyError (or the call itself raises ClientError) and
\* nothing is adopted.
lt_describe_existing ==
    /\ pc = "lt_describe_existing"
    /\ Err("")

\* asg.py:126-148: no Store lookup and no handler for AlreadyExists.
asg_create ==
    /\ pc = "asg_create"
    /\ \/ /\ Obj("asg", AsgId(loc.env)) \notin live
          /\ Ok("create_auto_scaling_group", "ret",
                [loc EXCEPT !.asg_name = AsgId(loc.env)],
                add_resource(resources, loc.dep, "asg", AsgId(loc.env), "webapp-asg"),
                live \cup {Obj("asg", AsgId(loc.env))},
                created \cup {Obj("asg", AsgId(loc.env))}, nextId)
       \/ Err("create_auto_scaling_group")

create_asg ==
    \/ ck_describe_key_pairs \/ ck_create_key_pair \/ asg_describe_cfg_lt
    \/ lt_describe_images \/ lt_create \/ lt_describe_existing \/ asg_create

\* --------------------------------------------------- create_scaling_policies
PolicyId(env) == NamedId("webapp-scale-out", env)
AlarmHigh(env) == NamedId("webapp-cpu-high", env)
AlarmLow(env) == NamedId("webapp-cpu-low", env)

\* cloudwatch.py:12-25: put_scaling_policy creates or updates the policy of
\* that name on the group, which has to exist.
sp_put_scaling_policy ==
    /\ pc = "create_scaling_policies"
    /\ \/ /\ Obj("asg", loc.asg_name) \in live
          /\ Ok("put_scaling_policy", "sp_put_alarm_high",
                [loc EXCEPT !.policy_arn = PolicyId(loc.env)],
                add_resource(resources, loc.dep, "scaling_policy",
                             PolicyId(loc.env), "webapp-scale-out"),
                live \cup {Obj("scaling_policy", PolicyId(loc.env))},
                created \cup {Obj("scaling_policy", PolicyId(loc.env))}, nextId)
       \/ Err("put_scaling_policy")

put_alarm(at, name, p) ==
    /\ pc = at
    /\ \/ Ok("put_metric_alarm", p, loc,
             add_resource(resources, loc.dep, "cloudwatch_alarm", name, name[1]),
             live \cup {Obj("cloudwatch_alarm", name)},
             created \cup {Obj("cloudwatch_alarm", name)}, nextId)
       \/ Err("put_metric_alarm")

sp_put_alarm_high == put_alarm("sp_put_alarm_high", AlarmHigh(loc.env), "sp_put_alarm_low")
sp_put_alarm_low == put_alarm("sp_put_alarm_low", AlarmLow(loc.env), "ret")

create_scaling_policies ==
    sp_put_scaling_policy \/ sp_put_alarm_high \/ sp_put_alarm_low

\* -------------------------------------------------------------------- deploy
\* A deploy that calls create_asg before create_alb.
StageAfterAsgFirst(stage) ==
    CASE stage = "create_vpc" -> "create_asg"
      [] stage = "create_asg" -> "create_alb"
      [] stage = "create_alb" -> "create_scaling_policies"
      [] OTHER -> "end"

\* deploy.py:63-95: the order in which deploy calls the stage functions.
StageAfter(stage) ==
    CASE stage = "create_vpc" -> "create_alb"
      [] stage = "create_alb" -> "create_asg"
      [] stage = "create_asg" -> "create_scaling_policies"
      [] OTHER -> "end"

\* deploy.py:48-63: a fresh uuid4 names the deployment of every invocation.
deploy_id == nextId

deploy_start ==
    /\ pc = "idle"
    /\ runs.deploy > 0
    /\ \E env \in Envs:
        /\ deployments' = create_deployment(deployments, env, deploy_id, clock)
        /\ loc' = [NoLoc EXCEPT !.caller = "deploy", !.stage = "create_vpc",
                                !.dep = deploy_id, !.env = env]
    /\ clock' = clock + 1
    /\ nextId' = nextId + 1
    /\ pc' = "deploy_session"
    /\ calls' = << >>
    /\ created' = {}
    /\ runs' = [runs EXCEPT !.deploy = @ - 1]
    /\ outcome' = "running"
    /\ dloc' = NoDloc
    /\ dlog' = << >>
    /\ UNCHANGED <<resources, live, cfg, v14, aloc>>

\* deploy.py:55-61: the region is read from the config and the session and
\* its clients are built before the try statement; an exception here (no
\* aws.region in the config, a region or profile boto3 rejects) leaves deploy
\* past every handler, with the deployment row as create_deployment wrote it.
deploy_session ==
    /\ pc = "deploy_session"
    /\ \/ /\ pc' = "create_vpc"
          /\ UNCHANGED outcome
       \/ /\ pc' = "idle"
          /\ outcome' = "raised"
    /\ UNCHANGED <<storeVars, provVars, cfg, v14, aloc, loc, calls, created, runs,
                   destroyVars>>

\* A stage function returned to deploy: the next stage, or deploy.py:95.
deploy_ret ==
    /\ pc = "ret"
    /\ loc.caller = "deploy"
    /\ IF StageAfter(loc.stage) = "end"
       THEN /\ deployments' = update_deployment_status(deployments, loc.dep, "completed")
            /\ pc' = "idle"
            /\ outcome' = "completed"
            /\ UNCHANGED loc
       ELSE /\ pc' = StageAfter(loc.stage)
            /\ loc' = [loc EXCEPT !.stage = StageAfter(loc.stage)]
            /\ UNCHANGED <<deployments, outcome>>
    /\ UNCHANGED <<resources, clock, live, nextId, cfg, v14, aloc, calls, created, runs,
                   destroyVars>>

deploy == deploy_start \/ deploy_session \/ deploy_ret

Stages == create_vpc \/ create_alb \/ create_asg \/ create_scaling_policies

\* ------------------------------------------- stage functions called directly
\* The stage functions are plain module functions: a caller other than deploy
\* may pass the same deployment id again.  This driver calls them in deploy's
\* order, threading the results, and may call a stage that returned once more.
direct_start ==
    /\ pc = "idle"
    /\ runs.direct > 0
    /\ \E env \in Envs:
        /\ deployments' = create_deployment(deployments, env, deploy_id, clock)
        /\ loc' = [NoLoc EXCEPT !.caller = "direct", !.stage = "create_vpc",
                                !.dep = deploy_id, !.env = env]
    /\ clock' = clock + 1
    /\ nextId' = nextId + 1
    /\ pc' = "create_vpc"
    /\ calls' = << >>
    /\ created' = {}
    /\ runs' = [runs EXCEPT !.direct = @ - 1]
    /\ outcome' = "running"
    /\ UNCHANGED <<resources, live, cfg, v14, aloc, destroyVars>>

direct_next ==
    /\ pc = "ret"
    /\ loc.caller = "direct"
    /\ IF StageAfter(loc.stage) = "end"
       THEN pc' = "idle" /\ outcome' = "returned" /\ UNCHANGED loc
       ELSE /\ pc' = StageAfter(loc.stage)
            /\ loc' = [loc EXCEPT !.stage = StageAfter(loc.stage)]
            /\ UNCHANGED outcome
    /\ calls' = << >>
    /\ runs' = [runs EXCEPT !.again = ""]
    /\ UNCHANGED <<storeVars, provVars, cfg, v14, aloc, created, destroyVars>>

\* The stage that just returned is invoked again with the same arguments.
direct_again ==
    /\ pc = "ret"
    /\ loc.caller = "direct"
    /\ runs.reinvoke > 0
    /\ pc' = loc.stage
    /\ runs' = [runs EXCEPT !.reinvoke = @ - 1, !.again = loc.stage,
                            !.first = loc]
    /\ calls' = << >>
    /\ UNCHANGED <<storeVars, provVars, cfg, v14, aloc, loc, created, outcome, destroyVars>>

\* The locals a stage function starts with: the arguments its caller kept.
EntryLoc(l) ==
    CASE l.stage = "create_vpc" ->
            [NoLoc EXCEPT !.caller = l.caller, !.stage = l.stage,
                          !.dep = l.dep, !.env = l.env]
      [] l.stage = "create_alb" ->
            [l EXCEPT !.alb_arn = NoId, !.target_group_arn = NoId,
                      !.err_at = -1, !.refused = FALSE]
      [] l.stage = "create_asg" ->
            [l EXCEPT !.key_name = NoId, !.launch_template_id = NoId,
                      !.asg_name = NoId, !.err_at = -1, !.refused = FALSE]
      [] OTHER -> [l EXCEPT !.policy_arn = NoId, !.err_at = -1, !.refused = FALSE]

\* The stage that just raised is invoked again with the same arguments.
direct_retry ==
    /\ pc = "idle"
    /\ outcome = "raised"
    /\ loc.caller = "direct"
    /\ runs.reinvoke > 0
    /\ pc' = loc.stage
    /\ loc' = EntryLoc(loc)
    /\ runs' = [runs EXCEPT !.reinvoke = @ - 1, !.retried = loc.stage]
    /\ calls' = << >>
    /\ outcome' = "running"
    /\ UNCHANGED <<storeVars, provVars, cfg, v14, aloc, created, destroyVars>>

direct == direct_start \/ direct_next \/ direct_again \/ direct_retry

\* ------------------------------------------------------------------- destroy
\* A look-up that returns the oldest completed deployment.
get_deployment_id_oldest(deps, env) ==
    LET done == {i \in 1..Len(deps):
                    deps[i].environment = env /\ deps[i].status = "completed"}
    IN  IF done = {} THEN 0
        ELSE LET oldest == CHOOSE i \in done:
                     \A j \in done: deps[i].created_at <= deps[j].created_at
             IN  deps[oldest].deployment_id

\* state.py:109-123: the completed deployment of the environment with the
\* greatest created_at; 0 stands for None.
get_deployment_id(deps, env) ==
    LET done == {i \in 1..Len(deps):
                    deps[i].environment = env /\ deps[i].status = "completed"}
    IN  IF done = {} THEN 0
        ELSE LET newest == CHOOSE i \in done:
                     \A j \in done: deps[j].created_at <= deps[i].created_at
             IN  deps[newest].deployment_id

MaxRetries == 5
AlbMaxWait == 30
AlbPoll == 5
NiMaxWait == 60
NiPoll == 5

\* The rows of one type in the snapshot destroy takes at deploy.py:423.
rows_of(t) == SelectSeq(dloc.rows, LAMBDA r: r.resource_type = t)

\* A walk that ends after the security groups.
WalkAfterSgLast(at) ==
    CASE at = "d_policy" -> "d_alarm"
      [] at = "d_alarm" -> "d_asg"
      [] at = "d_asg" -> "d_lt"
      [] at = "d_lt" -> "d_listener"
      [] at = "d_listener" -> "d_tg"
      [] at = "d_tg" -> "d_alb"
      [] at = "d_alb" -> "d_sg"
      [] OTHER -> "d_delete_deployment"

\* A walk that deletes load balancers before listeners and target groups.
WalkAfterAlbFirst(at) ==
    CASE at = "d_policy" -> "d_alarm"
      [] at = "d_alarm" -> "d_asg"
      [] at = "d_asg" -> "d_lt"
      [] at = "d_lt" -> "d_alb"
      [] at = "d_alb" -> "d_listener"
      [] at = "d_listener" -> "d_tg"
      [] at = "d_tg" -> "d_sg"
      [] at = "d_sg" -> "d_ni"
      [] at = "d_ni" -> "d_rt"
      [] at = "d_rt" -> "d_subnet"
      [] at = "d_subnet" -> "d_igw"
      [] at = "d_igw" -> "d_vpc"
      [] OTHER -> "d_delete_deployment"

\* deploy.py:432-643: the blocks of the walk, in the order of the code.
WalkAfter(at) ==
    CASE at = "d_policy" -> "d_alarm"
      [] at = "d_alarm" -> "d_asg"
      [] at = "d_asg" -> "d_lt"
      [] at = "d_lt" -> "d_listener"
      [] at = "d_listener" -> "d_tg"
      [] at = "d_tg" -> "d_alb"
      [] at = "d_alb" -> "d_sg"
      [] at = "d_sg" -> "d_ni"
      [] at = "d_ni" -> "d_rt"
      [] at = "d_rt" -> "d_subnet"
      [] at = "d_subnet" -> "d_igw"
      [] at = "d_igw" -> "d_vpc"
      [] OTHER -> "d_delete_deployment"

\* The resource type a block of the walk deletes.
TypeAt(at) ==
    CASE at = "d_policy" -> "scaling_policy"
      [] at = "d_alarm" -> "cloudwatch_alarm"
      [] at = "d_asg" -> "asg"
      [] at = "d_lt" -> "launch_template"
      [] at = "d_listener" -> "listener"
      [] at = "d_tg" -> "target_group"
      [] at = "d_alb" -> "alb"
      [] at = "d_sg" -> "security_group"
      [] at = "d_rt" -> "route_table"
      [] at = "d_subnet" -> "subnet"
      [] at = "d_igw" -> "internet_gateway"
      [] at = "d_vpc" -> "vpc"
      [] OTHER -> ""

\* The log of delete calls keeps one entry per run of calls of one type.
Logged(t) == IF dlog # << >> /\ dlog[Len(dlog)] = t THEN dlog ELSE Append(dlog, t)

\* The object a delete removed, or that the provider says is not there.
Without(answer, t, id) ==
    IF answer \in {"ok", "NotFound"} THEN live \ {Obj(t, id)} ELSE live

DStep(p, dl, lg, lv) ==
    /\ pc' = p
    /\ dloc' = dl
    /\ dlog' = lg
    /\ live' = lv
    /\ UNCHANGED <<storeVars, nextId, cfg, v14, aloc, loc, calls, created, runs, outcome>>

\* What the walk remembers of the retry loop that ended in the last step.
Forget(dl) == [dl EXCEPT !.last = NoLast]

\* The for loop of a block moves to its next row.
NextRow ==
    [dloc EXCEPT !.idx = @ + 1, !.attempt = 0, !.waited = 0, !.n = 0,
                 !.final = "", !.last = NoLast, !.detach = "", !.passed = 0,
                 !.deletes = 0,
                 !.igw = NoIgw]
\* The block is done: the next block starts at its first row.
NextBlock ==
    [dloc EXCEPT !.idx = 1, !.attempt = 0, !.waited = 0, !.n = 0,
                 !.final = "", !.last = NoLast, !.detach = "", !.passed = 0,
                 !.deletes = 0,
                 !.igw = NoIgw]

\* deploy.py:646-648: an exception that reaches the outer handler is
\* re-raised; delete_deployment is not reached.
DRaise(t, answer) ==
    /\ pc' = "idle"
    /\ outcome' = "destroy_raised"
    /\ dloc' = [dloc EXCEPT !.raised_by = <<t, answer>>]
    /\ UNCHANGED <<storeVars, provVars, cfg, v14, aloc, loc, calls, created, runs, dlog>>

Errors == {"DependencyViolation", "NotFound", "Other"}

destroy_start ==
    /\ pc = "idle"
    /\ runs.destroy > 0
    /\ runs' = [runs EXCEPT !.destroy = @ - 1]
    /\ \E env \in Envs:
        LET id == get_deployment_id(deployments, env)
        IN  IF id = 0
            THEN /\ outcome' = "no_deployment"
                 /\ dloc' = [NoDloc EXCEPT !.env = env]
                 /\ UNCHANGED pc
            ELSE /\ outcome' = "running"
                 /\ pc' = "d_policy"
                 /\ dloc' = [NoDloc EXCEPT !.dep = id, !.env = env, !.idx = 1,
                                           !.rows = get_resources(resources, id)]
    /\ dlog' = << >>
    /\ loc' = NoLoc
    /\ calls' = << >>
    /\ created' = {}
    /\ UNCHANGED <<storeVars, provVars, cfg, v14, aloc>>

\* deploy.py:255-411: status looks the deployment up and, when there is one,
\* reads its rows and describes its objects; it writes nothing.
status ==
    /\ pc = "idle"
    /\ runs.status > 0
    /\ runs' = [runs EXCEPT !.status = @ - 1]
    /\ \E env \in Envs:
        LET id == get_deployment_id(deployments, env)
        IN  /\ outcome' = IF id = 0 THEN "no_deployment" ELSE "status_shown"
            /\ dloc' = [NoDloc EXCEPT !.env = env, !.dep = id,
                                      !.rows = IF id = 0 THEN << >>
                                               ELSE get_resources(resources, id)]
    /\ dlog' = << >>
    /\ loc' = NoLoc
    /\ calls' = << >>
    /\ created' = {}
    /\ UNCHANGED <<storeVars, provVars, cfg, v14, aloc, pc>>

\* A block whose delete is wrapped in try/except Exception: the error is
\* printed and the loop goes on (policies, alarms, launch templates,
\* listeners, target groups).
Guarded(at) ==
    /\ pc = at
    /\ IF dloc.idx > Len(rows_of(TypeAt(at)))
       THEN DStep(WalkAfter(at), NextBlock, dlog, live)
       ELSE \E answer \in {"ok"} \cup Errors:
            DStep(at, NextRow, Logged(TypeAt(at)),
                  Without(answer, TypeAt(at), rows_of(TypeAt(at))[dloc.idx].resource_id))

\* deploy.py:436-446: a policy is deleted only when an asg row gave a name.
d_policy ==
    /\ pc = "d_policy"
    /\ IF rows_of("asg") = << >>
       THEN DStep(WalkAfter("d_policy"), NextBlock, dlog, live)
       ELSE Guarded("d_policy")

d_alarm == Guarded("d_alarm")
d_lt == Guarded("d_lt")
d_listener == Guarded("d_listener")
d_tg == Guarded("d_tg")

\* deploy.py:456-463: update_auto_scaling_group(MinSize=0, DesiredCapacity=0)
\* stands outside any inner try.
d_asg ==
    /\ pc = "d_asg"
    /\ IF rows_of("asg") = << >>
       THEN DStep(WalkAfter("d_asg"), NextBlock, dlog, live)
       ELSE \/ DStep("d_asg_wait", dloc, dlog, live)
            \/ \E e \in Errors: DRaise("asg", e)

\* deploy.py:465-470: while True; the group is gone or has no instance: break.
d_asg_wait ==
    /\ pc = "d_asg_wait"
    /\ \/ DStep("d_asg_delete", dloc, dlog, live)
       \/ DStep("d_asg_sleep", dloc, dlog, live)
       \/ \E e \in Errors: DRaise("asg", e)

\* deploy.py:471-472
d_asg_sleep ==
    /\ pc = "d_asg_sleep"
    /\ DStep("d_asg_wait", dloc, dlog, live)

\* deploy.py:474-479
d_asg_delete ==
    /\ pc = "d_asg_delete"
    /\ \/ DStep(WalkAfter("d_asg"), NextBlock, Logged("asg"),
                live \ {Obj("asg", rows_of("asg")[1].resource_id)})
       \/ /\ dlog' = Logged("asg")
          /\ \E e \in Errors:
               /\ pc' = "idle"
               /\ outcome' = "destroy_raised"
               /\ dloc' = [dloc EXCEPT !.raised_by = <<"asg", e>>]
          /\ UNCHANGED <<storeVars, provVars, cfg, v14, aloc, loc, calls, created, runs>>

\* deploy.py:505-522
d_alb ==
    /\ pc = "d_alb"
    /\ IF dloc.idx > Len(rows_of("alb"))
       THEN DStep(WalkAfter("d_alb"), NextBlock, dlog, live)
       ELSE \/ DStep("d_alb_wait", dloc, Logged("alb"),
                     live \ {Obj("alb", rows_of("alb")[dloc.idx].resource_id)})
            \/ \E e \in Errors:
                 DStep("d_alb", NextRow, Logged("alb"),
                       Without(e, "alb", rows_of("alb")[dloc.idx].resource_id))

\* deploy.py:511-520: describe_load_balancers answers while the load balancer
\* is still listed; a ClientError ends the wait.
d_alb_wait ==
    /\ pc = "d_alb_wait"
    /\ IF dloc.waited < AlbMaxWait
       THEN \/ DStep("d_alb_wait", [dloc EXCEPT !.waited = @ + AlbPoll], dlog, live)
            \/ DStep("d_alb", NextRow, dlog, live)
       ELSE DStep("d_alb", NextRow, dlog, live)

\* A retry loop that sleeps and retries after its last attempt too.
retry_again_unbounded(code, attempt) ==
    code = "DependencyViolation" /\ attempt < MaxRetries

\* deploy.py:530-541 and its copies for route tables, subnets and the VPC.
retry_again(code, attempt) ==
    code = "DependencyViolation" /\ attempt < MaxRetries - 1

\* The provider's answers to the deletes of one resource: DependencyViolation
\* to the first n attempts, then final.  The environment settles them when
\* the first attempt is made.
Retried(at) ==
    /\ pc = at
    /\ IF dloc.idx > Len(rows_of(TypeAt(at)))
       THEN DStep(WalkAfter(at), NextBlock, dlog, live)
       ELSE \E n \in 0..MaxDV, final \in {"ok", "NotFound", "Other"}:
            /\ dloc.attempt > 0 => (n = dloc.n /\ final = dloc.final)
            /\ LET answer == IF dloc.attempt < n THEN "DependencyViolation" ELSE final
                   id == rows_of(TypeAt(at))[dloc.idx].resource_id
                   ended(result) ==
                       [NextRow EXCEPT !.last =
                           [type |-> TypeAt(at), attempts |-> dloc.attempt + 1,
                            n |-> n, final |-> final, result |-> result]]
               IN  IF answer = "ok"
                   THEN DStep(at, ended("deleted"), Logged(TypeAt(at)),
                              live \ {Obj(TypeAt(at), id)})
                   ELSE IF retry_again(answer, dloc.attempt)
                   THEN DStep(at, [dloc EXCEPT !.attempt = @ + 1, !.n = n,
                                               !.final = final, !.last = NoLast],
                              Logged(TypeAt(at)), live)
                   ELSE DStep(at, ended("skipped"), Logged(TypeAt(at)),
                              Without(answer, TypeAt(at), id))

d_sg == Retried("d_sg")
d_rt == Retried("d_rt")
d_subnet == Retried("d_subnet")
d_vpc == Retried("d_vpc")

\* deploy.py:547-563: with a vpc row, the network interfaces of the VPC are
\* listed; any exception is printed.
d_ni ==
    /\ pc = "d_ni"
    /\ IF rows_of("vpc") = << >>
       THEN DStep(WalkAfter("d_ni"), NextBlock, dlog, live)
       ELSE \/ DStep(WalkAfter("d_ni"), NextBlock, dlog, live)
            \/ DStep("d_ni_wait", Forget(dloc), dlog, live)

\* deploy.py:556-561: sleep, then list again, while interfaces remain.
d_ni_wait ==
    /\ pc = "d_ni_wait"
    /\ IF dloc.waited < NiMaxWait
       THEN \/ DStep("d_ni_wait", [dloc EXCEPT !.waited = @ + NiPoll], dlog, live)
            \/ DStep(WalkAfter("d_ni"), NextBlock, dlog, live)
       ELSE DStep(WalkAfter("d_ni"), NextBlock, dlog, live)

\* The row of a gateway is done: what its retry loop did.
IgwEnded(result, detach, deletes) ==
    [NextRow EXCEPT !.igw = [attempts |-> dloc.attempt + 1,
                             passed |-> dloc.passed, deletes |-> deletes,
                             detach |-> detach, result |-> result]]

\* deploy.py:598-616 with the delete issued whatever the detach answered.
d_igw_unchecked ==
    /\ pc = "d_igw"
    /\ IF dloc.idx > Len(rows_of("internet_gateway"))
       THEN DStep(WalkAfter("d_igw"), NextBlock, dlog, live)
       ELSE \E answer \in {"ok", "Gateway.NotAttached"} \cup Errors:
                 DStep("d_igw_delete", [dloc EXCEPT !.detach = answer],
                       Logged("internet_gateway"), live)

\* deploy.py:598-616: with a vpc row the gateway is detached first.  A
\* refused detach is tried again after a sleep; refused at the last attempt
\* it is re-raised into the handler of deploy.py:620-626, which prints it and
\* leaves the loop.
d_igw ==
    /\ pc = "d_igw"
    /\ IF dloc.idx > Len(rows_of("internet_gateway"))
       THEN DStep(WalkAfter("d_igw"), NextBlock, dlog, live)
       ELSE IF rows_of("vpc") = << >>
       THEN DStep("d_igw_delete", dloc, dlog, live)
       ELSE \/ \E answer \in {"ok", "Gateway.NotAttached"}:
                 DStep("d_igw_delete",
                       [dloc EXCEPT !.detach = answer, !.passed = @ + 1],
                       Logged("internet_gateway"), live)
            \/ \E e \in Errors:
                 IF dloc.attempt < MaxRetries - 1
                 THEN DStep("d_igw", [dloc EXCEPT !.attempt = @ + 1, !.detach = e],
                            Logged("internet_gateway"), live)
                 ELSE DStep("d_igw",
                            IgwEnded("detach_refused", e, dloc.deletes),
                            Logged("internet_gateway"), live)

\* deploy.py:617-626: the delete of the gateway; a DependencyViolation before
\* the last attempt starts the next attempt, at the detach.
d_igw_delete ==
    /\ pc = "d_igw_delete"
    /\ LET id == rows_of("internet_gateway")[dloc.idx].resource_id
       IN  \E answer \in {"ok"} \cup Errors:
            IF answer # "ok" /\ retry_again(answer, dloc.attempt)
            THEN DStep("d_igw", [dloc EXCEPT !.attempt = @ + 1, !.detach = "",
                                             !.deletes = @ + 1],
                       Logged("internet_gateway"), live)
            ELSE DStep("d_igw",
                       IgwEnded(IF answer = "ok" THEN "deleted" ELSE "skipped",
                                dloc.detach, dloc.deletes + 1),
                       Logged("internet_gateway"),
                       Without(answer, "internet_gateway", id))

\* deploy.py:643-644 with a delete of every deployment of the environment.
d_delete_environment ==
    /\ pc = "d_delete_deployment"
    /\ LET gone == {deployments[i].deployment_id:
                        i \in {k \in 1..Len(deployments):
                                deployments[k].environment = dloc.env}}
       IN  /\ resources' = SelectSeq(resources, LAMBDA r: r.deployment_id \notin gone)
           /\ deployments' = SelectSeq(deployments, LAMBDA d: d.deployment_id \notin gone)
    /\ pc' = "idle"
    /\ outcome' = "destroyed"
    /\ UNCHANGED <<clock, provVars, cfg, v14, aloc, loc, calls, created, runs, destroyVars>>

\* deploy.py:643-644
d_delete_deployment ==
    /\ pc = "d_delete_deployment"
    /\ resources' = delete_deployment_rows(resources, dloc.dep)
    /\ deployments' = delete_deployment_row(deployments, dloc.dep)
    /\ pc' = "idle"
    /\ outcome' = "destroyed"
    /\ UNCHANGED <<clock, provVars, cfg, v14, aloc, loc, calls, created, runs, destroyVars>>

destroy ==
    \/ destroy_start
    \/ d_policy \/ d_alarm \/ d_asg \/ d_asg_wait \/ d_asg_sleep \/ d_asg_delete
    \/ d_lt \/ d_listener \/ d_tg \/ d_alb \/ d_alb_wait
    \/ d_sg \/ d_ni \/ d_ni_wait \/ d_rt \/ d_subnet
    \/ d_igw \/ d_igw_delete \/ d_vpc
    \/ d_delete_deployment

\* --------------------------------------------------------------- destroy_all
\* state.py:139-160: the deployments that are completed or in_progress,
\* newest first.
RECURSIVE Reverse(_)
Reverse(s) == IF s = << >> THEN << >> ELSE Append(Reverse(Tail(s)), Head(s))

get_all_deployments(deps) ==
    Reverse(SelectSeq(deps, LAMBDA d: d.status \in {"completed", "in_progress"}))

\* deploy.py:880-887: the vpc row get_resource_by_type returns for each
\* listed deployment.
tracked_vpc_ids(listed, res) ==
    {get_resource_by_type(res, d.deployment_id, "vpc").resource_id:
        d \in {x \in Range(listed): has_resource(res, x.deployment_id, "vpc")}}

\* describe_vpcs: the VPCs that exist, as a list.  No VpcId is the string
\* 'default', so the filter of deploy.py:890 and 944 keeps every VPC.
RECURSIVE ListOf(_)
ListOf(S) ==
    IF S = {} THEN << >>
    ELSE LET m == CHOOSE x \in S: \A y \in S: x[3] <= y[3]
         IN  <<m>> \o ListOf(S \ {m})

describe_vpcs(lv) == ListOf({o.id: o \in {x \in lv: x.type = "vpc"}})

\* str.lower() on the characters an operator may type.
LowerChar(c) ==
    CASE c = "Y" -> "y" [] c = "E" -> "e" [] c = "S" -> "s"
      [] c = "N" -> "n" [] c = "O" -> "o" [] OTHER -> c

lower(str) == [i \in 1..Len(str) |-> LowerChar(str[i])]

\* What the operator types at the prompt of deploy.py:905.
Typed ==
    {<<"y", "e", "s">>, <<"Y", "E", "S">>, <<"Y", "e", "s">>,
     << >>, <<"y">>, <<"n", "o">>, <<" ", "y", "e", "s">>}

\* sorted(environments), deploy.py:911-912.
SortedEnvs == <<"dev", "prod">>

\* A step of destroy_all or of destroy_vpc_and_resources that leaves the
\* Store alone.
AStep(p, a, lv, out) ==
    /\ pc' = p
    /\ aloc' = a
    /\ live' = lv
    /\ outcome' = out
    /\ UNCHANGED <<storeVars, nextId, cfg, v14, loc, calls, created, runs, destroyVars>>

\* deploy.py:870-901.  The session, the client and the first describe_vpcs
\* are outside any try: an error there ends destroy_all with the error.
destroy_all_start ==
    /\ pc = "idle"
    /\ runs.destroy_all > 0
    /\ runs' = [runs EXCEPT !.destroy_all = @ - 1]
    /\ LET listed == get_all_deployments(deployments)
           a == [NoAloc EXCEPT !.all_deployments = listed,
                               !.tracked_vpc_ids = tracked_vpc_ids(listed, resources)]
       IN  \/ /\ pc' = "idle"
              /\ outcome' = "raised"
              /\ aloc' = [a EXCEPT !.failed_call = TRUE]
           \/ /\ aloc' = [a EXCEPT !.all_vpc_ids = describe_vpcs(live)]
              /\ IF listed = << >> /\ describe_vpcs(live) = << >>
                 THEN pc' = "idle" /\ outcome' = "nothing_to_destroy"
                 ELSE pc' = "da_confirm" /\ outcome' = "running"
    /\ dloc' = NoDloc
    /\ dlog' = << >>
    /\ loc' = NoLoc
    /\ calls' = << >>
    /\ created' = {}
    /\ UNCHANGED <<storeVars, provVars, cfg, v14>>

\* deploy.py:953-955.
AEnd(a) == AStep("idle", a, live, "destroy_all_done")

\* deploy.py:922-933: the loop over all_vpc_ids calls the routine for the
\* VPCs that are not tracked.
Untracked(a) == SelectSeq(a.all_vpc_ids, LAMBDA v: v \notin a.tracked_vpc_ids)

\* The call of destroy_vpc_and_resources for the next VPC of the running
\* loop, or what follows the loop: the listing of deploy.py:943 after the
\* first loop, the end after the second.
ANextVpc(a, lv) ==
    IF a.todo # << >>
    THEN AStep("v_describe",
               [a EXCEPT !.vpc_id = Head(a.todo), !.todo = Tail(a.todo),
                         !.phase = "alb", !.waited = 0, !.attempt = 0,
                         !.answer = "", !.albs = "", !.tgs = "",
                         !.nis = 0, !.ni = NoNi],
               lv, outcome)
    ELSE IF a.pass = 1 THEN AStep("da_relist", a, lv, outcome)
         ELSE AStep("idle", a, lv, "destroy_all_done")

\* The comparison of deploy.py:906 as a prefix test.
confirmed_prefix(typed) ==
    /\ Len(typed) \in 1..3
    /\ lower(typed) = SubSeq(<<"y", "e", "s">>, 1, Len(typed))

\* deploy.py:906: confirm.lower() != 'yes' fails.
confirmed(typed) == lower(typed) = <<"y", "e", "s">>

\* deploy.py:905-908 and the head of the loop of 910-920.
da_confirm ==
    /\ pc = "da_confirm"
    /\ \E typed \in Typed:
        IF ~confirmed(typed)
        THEN AStep("idle", [aloc EXCEPT !.confirm = typed], live, "cancelled")
        ELSE AStep("da_destroy",
                   [aloc EXCEPT !.confirm = typed,
                                !.envs = SelectSeq(SortedEnvs, LAMBDA e:
                                    \E d \in Range(aloc.all_deployments):
                                        d.environment = e)],
                   live, outcome)

\* deploy.py:910-920: destroy(config, env) for the next environment, inside
\* try/except Exception.  The walk is the one of the destroy actions; here it
\* is one step with its three ends: it finds no completed deployment; it
\* completes, having deleted the recorded objects or having given up on the
\* VPC, and removes the deployment's rows; it raises, which is caught.  The
\* typed text is not read after deploy.py:906.
da_destroy ==
    /\ pc = "da_destroy"
    /\ IF aloc.envs = << >>
       THEN IF aloc.all_vpc_ids = << >>
            THEN AEnd([aloc EXCEPT !.confirm = << >>])
            ELSE ANextVpc([aloc EXCEPT !.pass = 1, !.todo = Untracked(aloc),
                                       !.failed_vpcs = {}, !.confirm = << >>],
                          live)
       ELSE LET id == get_deployment_id(deployments, Head(aloc.envs))
                rows == get_resources(resources, id)
                vpcs == {o \in LiveOf(rows): o.type = "vpc"}
                a == [aloc EXCEPT !.envs = Tail(aloc.envs), !.confirm = << >>]
            IN  /\ pc' = "da_destroy"
                /\ IF id = 0
                   THEN /\ aloc' = a
                        /\ dlog' = dlog
                        /\ UNCHANGED <<deployments, resources, live>>
                   ELSE \/ /\ aloc' = a
                           /\ dlog' = dlog \o [i \in 1..Len(rows) |->
                                                 rows[Len(rows) + 1 - i].resource_type]
                           /\ live' = live \ LiveOf(rows)
                           /\ resources' = delete_deployment_rows(resources, id)
                           /\ deployments' = delete_deployment_row(deployments, id)
                        \/ /\ vpcs # {}
                           /\ aloc' = [a EXCEPT !.failed_call = TRUE]
                           /\ dlog' = dlog \o [i \in 1..Len(rows) |->
                                                 rows[Len(rows) + 1 - i].resource_type]
                           /\ live' = live \ (LiveOf(rows) \ vpcs)
                           /\ resources' = delete_deployment_rows(resources, id)
                           /\ deployments' = delete_deployment_row(deployments, id)
                        \/ /\ aloc' = [a EXCEPT !.failed_call = TRUE]
                           /\ dlog' = dlog
                           /\ UNCHANGED <<deployments, resources, live>>
                /\ UNCHANGED <<clock, nextId, cfg, v14, loc, calls, created, runs,
                               outcome, dloc>>

\* deploy.py:941-951: the VPCs that exist now and did not fail, tracked or
\* not, are handed to the routine.  describe_vpcs is outside any try.
da_relist ==
    /\ pc = "da_relist"
    /\ \/ AStep("idle", [aloc EXCEPT !.failed_call = TRUE], live, "raised")
       \/ ANextVpc([aloc EXCEPT !.pass = 2,
                                !.todo = SelectSeq(describe_vpcs(live), LAMBDA v:
                                            v \notin aloc.failed_vpcs)], live)

\* ------------------------------------------------- destroy_vpc_and_resources
VpcNiMaxWait == 30
VpcNiPoll == 3
VpcMaxRetries == 3

\* The routine returns to the loop that called it: deploy.py:931-933 and
\* 949-951 add the VPC to failed_vpcs when it returned False.
VReturnFrom(a, success, failed, lv) ==
    ANextVpc([a EXCEPT !.success = success,
                       !.failed_call = failed,
                       !.failed_vpcs = IF success = "False"
                                       THEN @ \cup {a.vpc_id} ELSE @],
             lv)

VReturn(success, failed, lv) == VReturnFrom(aloc, success, failed, lv)

\* The routine without its outer try: the error reaches destroy_all, which
\* has no handler around the call.
VRaises == AStep("idle", [aloc EXCEPT !.failed_call = TRUE], live, "raised")

\* deploy.py:865-868: whatever is raised inside the routine makes it return
\* False.
VFalse == VReturn("False", TRUE, live)

\* The listings and their delete loops, in the order of the code.  The
\* target groups are listed only when the VPC had load balancers, and the
\* wait for the network interfaces is made only when some were listed.
VAfterListing(t) ==
    CASE t = "alb" -> "target_group"
      [] t = "target_group" -> "subnet"
      [] t = "subnet" -> "route_table"
      [] t = "route_table" -> "security_group"
      [] t = "security_group" -> "internet_gateway"
      [] t = "internet_gateway" -> "network_interface"

VAfterNothing(t) == IF t = "alb" THEN "subnet" ELSE VAfterListing(t)

\* The live load balancers recorded by a deployment whose vpc row is v.
AlbsIn(v, res, lv) ==
    {o \in LiveOf(res): /\ o.type = "alb"
                        /\ o \in lv
                        /\ \E k, j \in 1..Len(res):
                            /\ res[k].resource_type = "alb"
                            /\ res[k].resource_id = o.id
                            /\ res[j].deployment_id = res[k].deployment_id
                            /\ res[j].resource_type = "vpc"
                            /\ res[j].resource_id = v}

\* The load balancers and target groups of the VPC matter until the subnets
\* are done.
VLeave(a, t) == IF t = "subnet" THEN [a EXCEPT !.albs = "", !.tgs = ""] ELSE a

\* deploy.py:750-763: the next interface listed, attached to an instance or
\* not; after the last one the wait of deploy.py:807.
VNextNi(a) ==
    IF a.nis = 0
    THEN AStep("v_ni_wait", [a EXCEPT !.ni = NoNi], live, outcome)
    ELSE \E attached \in BOOLEAN:
            AStep(IF attached THEN "v_ni_describe_instances" ELSE "v_ni_delete",
                  [a EXCEPT !.nis = @ - 1, !.ni = [NoNi EXCEPT !.attached = attached]],
                  live, outcome)

\* deploy.py:660-663: the load balancers of the account are listed and those
\* of the VPC picked.  The VPC holds target groups or not.
v_describe_load_balancers ==
    /\ pc = "v_describe"
    /\ aloc.phase = "alb"
    /\ \/ VFalse
       \/ \E albs, tgs \in BOOLEAN:
            /\ AlbsIn(aloc.vpc_id, resources, live) # {} => albs
            /\ LET a == [aloc EXCEPT !.albs = IF albs THEN "held" ELSE "none",
                                     !.tgs = IF tgs THEN "held" ELSE "none"]
               IN  IF albs
                   THEN AStep("v_delete", a, live, outcome)
                   ELSE AStep("v_describe", [a EXCEPT !.phase = VAfterNothing("alb")],
                              live, outcome)

\* deploy.py:676-677, 686-688, 698-700, 711-713, 724-726, 743-747: a listing
\* of what the VPC holds.  An error ends the routine; an empty listing leads
\* to the next one.
v_describe ==
    /\ pc = "v_describe"
    /\ aloc.phase # "alb"
    /\ \/ VFalse
       \/ \E found \in BOOLEAN:
            /\ aloc.phase = "target_group" => (found <=> aloc.tgs = "held")
            /\ IF aloc.phase = "network_interface"
               THEN IF found
                    THEN \E n \in 1..MaxInterfaces: VNextNi([aloc EXCEPT !.nis = n])
                    ELSE AStep("v_delete_vpc", aloc, live, outcome)
               ELSE IF found
                    THEN AStep("v_delete", aloc, live, outcome)
                    ELSE AStep("v_describe",
                               [VLeave(aloc, aloc.phase) EXCEPT
                                    !.phase = VAfterNothing(aloc.phase)],
                               live, outcome)

\* deploy.py:665-674, 679-684, 690-696, 702-709, 715-722, 728-739: the
\* deletes of what was listed.  A ClientError of a delete is swallowed; any
\* other exception ends the routine.
v_delete ==
    /\ pc = "v_delete"
    /\ \/ VFalse
       \/ \E answered \in {"ok", "ClientError"}:
            LET a == [aloc EXCEPT !.failed_call = @ \/ answered # "ok",
                                  !.albs = IF aloc.phase = "alb" THEN "deleted" ELSE @,
                                  !.tgs = IF aloc.phase = "target_group"
                                          THEN "deleted" ELSE @]
                lv == IF aloc.phase = "alb" /\ answered = "ok"
                      THEN live \ AlbsIn(aloc.vpc_id, resources, live) ELSE live
            IN  AStep("v_describe",
                      [VLeave(a, aloc.phase) EXCEPT !.phase = VAfterListing(aloc.phase)],
                      lv, outcome)

\* deploy.py:763-786: the instance the interface is attached to is looked
\* up.  It runs, or is terminated or shutting down, or is gone; a
\* ClientError, InvalidInstanceID.NotFound or another, is printed and the
\* interface is deleted next.
v_ni_describe_instances ==
    /\ pc = "v_ni_describe_instances"
    /\ \/ VFalse
       \/ \E state \in {"running", "terminated", "gone"}, answered \in {"ok", "ClientError"}:
            /\ state = "gone" => answered = "ClientError"
            /\ AStep(IF answered = "ok" /\ state = "running"
                     THEN "v_ni_terminate" ELSE "v_ni_delete",
                     [aloc EXCEPT !.ni.state = state,
                                  !.failed_call = @ \/ answered # "ok"],
                     live, outcome)

\* deploy.py:771-773, 778-779: a ClientError of terminate_instances is
\* printed and the interface is deleted next.
v_ni_terminate ==
    /\ pc = "v_ni_terminate"
    /\ \/ VFalse
       \/ AStep("v_ni_waiter", [aloc EXCEPT !.ni.terminate = "issued"], live, outcome)
       \/ AStep("v_ni_delete",
                [aloc EXCEPT !.ni.terminate = "refused", !.failed_call = TRUE],
                live, outcome)

\* deploy.py:775-777: the waiter returns when the instance is terminated; its
\* WaiterError is no ClientError and ends the routine.
v_ni_waiter ==
    /\ pc = "v_ni_waiter"
    /\ \/ VFalse
       \/ AStep("v_ni_delete", [aloc EXCEPT !.ni.wait = "completed"], live, outcome)

\* deploy.py:788-797, 804-805
v_ni_delete ==
    /\ pc = "v_ni_delete"
    /\ \/ VFalse
       \/ \E answered \in {"ok", "NotFound", "InvalidParameterValue", "Other"}:
            LET a == [aloc EXCEPT !.failed_call = @ \/ answered # "ok"]
            IN  IF answered = "InvalidParameterValue"
                THEN AStep("v_ni_delete_again", a, live, outcome)
                ELSE VNextNi(a)

\* deploy.py:798-803
v_ni_delete_again ==
    /\ pc = "v_ni_delete_again"
    /\ \/ VFalse
       \/ \E answered \in {"ok", "ClientError"}:
            VNextNi([aloc EXCEPT !.failed_call = @ \/ answered # "ok"])

\* deploy.py:808-821: the interfaces are listed every VpcNiPoll seconds until
\* none is left or VpcNiMaxWait seconds were waited.
v_ni_wait ==
    /\ pc = "v_ni_wait"
    /\ \/ VFalse
       \/ AStep("v_delete_vpc", aloc, live, outcome)
       \/ AStep(IF aloc.waited + VpcNiPoll >= VpcNiMaxWait
                THEN "v_ni_check" ELSE "v_ni_wait",
                [aloc EXCEPT !.waited = @ + VpcNiPoll], live, outcome)

\* deploy.py:823-831: after the timeout the interfaces are listed once more.
v_ni_check ==
    /\ pc = "v_ni_check"
    /\ \/ VFalse
       \/ AStep("v_delete_vpc", aloc, live, outcome)

\* deploy.py:833-864 with a handler that retries after every error.
v_delete_vpc_any_error ==
    /\ pc = "v_delete_vpc"
    /\ \E answer \in {"ok", "DependencyViolation", "Other"}:
        LET a == [aloc EXCEPT !.answer = answer]
        IN  CASE answer = "ok" ->
                    VReturnFrom(a, "True", aloc.failed_call,
                                live \ {Obj("vpc", aloc.vpc_id)})
              [] answer # "ok" /\ aloc.attempt < VpcMaxRetries - 1 ->
                    AStep("v_retry", [a EXCEPT !.failed_call = TRUE], live, outcome)
              [] OTHER -> VReturnFrom(a, "False", TRUE, live)

\* deploy.py:833-842, 861-864: one attempt to delete the VPC.
v_delete_vpc ==
    /\ pc = "v_delete_vpc"
    /\ \E answer \in {"ok", "DependencyViolation", "Other"}:
        LET a == [aloc EXCEPT !.answer = answer]
        IN  CASE answer = "ok" ->
                    VReturnFrom(a, "True", aloc.failed_call,
                                live \ {Obj("vpc", aloc.vpc_id)})
              [] answer = "DependencyViolation" /\ aloc.attempt < VpcMaxRetries - 1 ->
                    AStep("v_retry", [a EXCEPT !.failed_call = TRUE], live, outcome)
              [] OTHER -> VReturnFrom(a, "False", TRUE, live)

\* deploy.py:843-860: before the next attempt the interfaces left are
\* listed and deleted; a ClientError of a delete is swallowed.
v_retry ==
    /\ pc = "v_retry"
    /\ \/ VFalse
       \/ AStep("v_delete_vpc", [aloc EXCEPT !.attempt = @ + 1], live, outcome)

destroy_vpc_and_resources ==
    \/ v_describe_load_balancers \/ v_describe \/ v_delete
    \/ v_ni_describe_instances \/ v_ni_terminate \/ v_ni_waiter
    \/ v_ni_delete \/ v_ni_delete_again
    \/ v_ni_wait \/ v_ni_check \/ v_delete_vpc \/ v_retry

destroy_all ==
    \/ destroy_all_start \/ da_confirm \/ da_destroy \/ da_relist
    \/ destroy_vpc_and_resources

\* ------------------------------------------ 14-10-2026: the state-file deployer
\* The environments the deployer is run for.
Envs14 == {"dev", "prod"}

\* The Python values self.state holds.
PyStr(v) == [py |-> "str", v |-> v]
PyInt(v) == [py |-> "int", v |-> v]
PyList(v) == [py |-> "list", v |-> v]

\* json.dump and json.load on the scalars: a str is written as a string and
\* an int as a number, and read back as such.
json_dump_scalar(x) ==
    IF x.py = "int" THEN [json |-> "number", v |-> x.v]
    ELSE [json |-> "string", v |-> x.v]
json_load_scalar(j) ==
    IF j.json = "number" THEN PyInt(j.v) ELSE PyStr(j.v)

\* A list (and a tuple) is written as an array, which is read back as a list.
json_dump_value(x) ==
    IF x.py \in {"list", "tuple"}
    THEN [json |-> "array", v |-> [i \in 1..Len(x.v) |-> json_dump_scalar(x.v[i])]]
    ELSE json_dump_scalar(x)
json_load_value(j) ==
    IF j.json = "array"
    THEN PyList([i \in 1..Len(j.v) |-> json_load_scalar(j.v[i])])
    ELSE json_load_scalar(j)

json_dump(obj) == [k \in DOMAIN obj |-> json_dump_value(obj[k])]
json_load(text) == [k \in DOMAIN text |-> json_load_value(text[k])]

\* An empty dict; as state.json, also the file that does not exist.
NoState == << >>

\* deploy.py:24-29: the entry of the environment, {} without one.
load_state(file, env) ==
    IF env \in DOMAIN file THEN json_load(file[env]) ELSE NoState

\* deploy.py:31-39 with only the environment's entry written.
save_state_alone(file, env, state) == env :> json_dump(state)

\* deploy.py:31-39: the file is read whole, the entry of the environment is
\* replaced and the whole is written.
save_state(file, env, state) ==
    LET all_state == [e \in DOMAIN file |-> json_load(file[e])]
        written == (env :> state) @@ all_state
    IN  [e \in DOMAIN written |-> json_dump(written[e])]

\* The deployer of one invocation: its environment and command, config.yaml,
\* self.state, the keys __init__ loaded into it, the statement it is at, the mutating provider calls it issued
\* (with the identifier a delete names), the objects it created at the
\* provider, the loop counters, how it ended, and the invocations the
\* behaviour may still start.
NoDeployer ==
    [env |-> "", command |-> "", config |-> [launch_template_id |-> NoId, subnets |-> 1],
     state |-> NoState, had |-> {}, pc |-> "idle", calls |-> {}, created |-> {},
     i |-> 0, attempt |-> 0, outcome |-> "none", error |-> "", run |-> 0, runs |-> 0]

Has(d, k) == k \in DOMAIN d.state
Put(d, k, v) == [d EXCEPT !.state = (k :> v) @@ d.state]
Called(d, op, id) == [d EXCEPT !.calls = @ \cup {<<op, id>>}]
Made(d, t, id) == [d EXCEPT !.created = @ \cup {Obj(t, id)}]
At(d, p) == [d EXCEPT !.pc = p]

\* The identifier the provider gives an object the invocation creates.
Id14(prefix) == <<prefix, deployer.env, deployer.run>>
SubnetId14(i) == <<"subnet", deployer.env, 10 * deployer.run + i>>

\* The deployer takes a step that writes no file.
SfGo(d) ==
    /\ deployer' = d
    /\ UNCHANGED <<storeVars, provVars, cfg, cmdVars, destroyVars, aloc, state_file, app>>

\* The step ends with self.save_state().
SfSave(d) ==
    /\ deployer' = d
    /\ state_file' = save_state(state_file, d.env, d.state)
    /\ UNCHANGED <<storeVars, provVars, cfg, cmdVars, destroyVars, aloc, app>>

\* deploy.py:641-655: no handler; an exception ends the process, and what
\* self.state held beyond the file is lost.
SfEnd(d, outcome14, error) ==
    [d EXCEPT !.pc = "idle", !.outcome = outcome14, !.error = error,
              !.state = NoState, !.i = 0, !.attempt = 0]
SfRaise(op, id) ==
    SfGo(SfEnd(IF op = "" THEN deployer ELSE Called(deployer, op, id),
               "raised", "ClientError"))

\* deploy.py:393-418: the stage functions in the order deploy calls them.
\* Each returns what self.state holds when its key is there; a stage function
\* called from within a later one finds its key.  create_alb returns the one
\* string self.state['alb_arn'] then (deploy.py:305-306), which the
\* assignment alb_arn, alb_dns = self.create_alb() of deploy.py:409 cannot
\* unpack: ValueError.
RECURSIVE Enter(_, _)
Enter(stage, d) ==
    CASE stage = "get_vpc_id" ->
            IF Has(d, "vpc_id") THEN Enter("get_subnet_ids", d)
            ELSE At(d, "create_vpc")
      [] stage = "get_subnet_ids" ->
            IF Has(d, "subnet_ids") THEN Enter("create_security_groups", d)
            ELSE At([d EXCEPT !.i = 0], "create_subnet")
      [] stage = "create_security_groups" ->
            IF Has(d, "alb_sg_id") /\ Has(d, "ec2_sg_id")
            THEN Enter("create_launch_template", d)
            ELSE At(d, "create_alb_sg")
      [] stage = "create_launch_template" ->
            IF Has(d, "launch_template_id") THEN Enter("create_target_group", d)
            ELSE IF d.config.launch_template_id # NoId
            THEN At(d, "describe_launch_template_versions")
            ELSE At(d, "describe_images")
      [] stage = "create_target_group" ->
            IF Has(d, "target_group_arn") THEN Enter("create_alb", d)
            ELSE At(d, "create_target_group")
      [] stage = "create_alb" ->
            IF Has(d, "alb_arn") THEN SfEnd(d, "raised", "ValueError")
            ELSE At(d, "create_load_balancer")
      [] stage = "create_asg" ->
            IF Has(d, "asg_name") THEN At(d, "status")
            ELSE At(d, "create_auto_scaling_group")
      [] OTHER -> At(d, "status")

\* deploy.py:541-543 with no template spared.
UsesExistingTemplate_never(d) == FALSE

\* deploy.py:541-543: the template in self.state is the one the config names.
UsesExistingTemplate(d) ==
    /\ d.config.launch_template_id # NoId
    /\ d.state["launch_template_id"].v = d.config.launch_template_id

\* deploy.py:527-639: the blocks of destroy in order; a block whose key
\* self.state lacks is skipped.
RECURSIVE EnterD(_, _)
EnterD(stage, d) ==
    LET e == [d EXCEPT !.i = 1, !.attempt = 0]
    IN  CASE stage = "asg" ->
                IF Has(d, "asg_name") THEN At(e, "delete_auto_scaling_group")
                ELSE EnterD("launch_template", d)
          [] stage = "launch_template" ->
                IF Has(d, "launch_template_id") /\ ~UsesExistingTemplate(d)
                THEN At(e, "delete_launch_template")
                ELSE EnterD("alb", d)
          [] stage = "alb" ->
                IF Has(d, "alb_arn") THEN At(e, "describe_listeners")
                ELSE EnterD("target_group", d)
          [] stage = "target_group" ->
                IF Has(d, "target_group_arn") THEN At(e, "delete_target_group")
                ELSE EnterD("cleanup", d)
          [] stage = "cleanup" ->
                IF Has(d, "vpc_id") THEN At(e, "cleanup_network_interfaces")
                ELSE EnterD("ec2_sg", d)
          [] stage = "ec2_sg" ->
                IF Has(d, "ec2_sg_id") THEN At(e, "delete_ec2_sg")
                ELSE EnterD("alb_sg", d)
          [] stage = "alb_sg" ->
                IF Has(d, "alb_sg_id") THEN At(e, "delete_alb_sg")
                ELSE EnterD("subnet", d)
          [] stage = "subnet" ->
                IF Has(d, "subnet_ids") /\ Len(d.state["subnet_ids"].v) > 0
                THEN At(e, "delete_subnet")
                ELSE EnterD("igw", d)
          [] stage = "igw" ->
                IF Has(d, "igw_id") /\ Has(d, "vpc_id")
                THEN At(e, "detach_internet_gateway")
                ELSE EnterD("vpc", d)
          [] stage = "vpc" ->
                IF Has(d, "vpc_id") THEN At(e, "delete_vpc")
                ELSE At(e, "reset")
          [] OTHER -> At(e, "reset")

\* deploy.py:641-655: main builds the deployer, whose __init__ loads the
\* state of the environment, and runs the command.
sf_main ==
    /\ deployer.pc = "idle"
    /\ deployer.runs > 0
    /\ \E env \in Envs14, command \in {"deploy", "status", "destroy"}:
        LET d == [deployer EXCEPT !.env = env, !.command = command,
                                  !.state = load_state(state_file, env),
                                  !.had = DOMAIN load_state(state_file, env),
                                  !.calls = {}, !.created = {},
                                  !.i = 0, !.attempt = 0, !.outcome = "running",
                                  !.error = "", !.run = @ + 1, !.runs = @ - 1]
        IN  SfGo(CASE command = "deploy" -> Enter("get_vpc_id", d)
                   [] command = "destroy" -> EnterD("asg", d)
                   [] OTHER -> At(d, "status"))

\* A provider call of deploy: it answers, or its exception ends the process.
SfCall(at, op, id, d) ==
    /\ deployer.pc = at
    /\ \/ SfGo(IF op = "" THEN d ELSE Called(d, op, id))
       \/ SfRaise(op, id)

\* The same for the last call of a stage function, followed by save_state.
SfCallSave(at, op, id, d) ==
    /\ deployer.pc = at
    /\ \/ SfSave(IF op = "" THEN d ELSE Called(d, op, id))
       \/ SfRaise(op, id)

\* deploy.py:41-76: get_vpc_id.  igw_id is put into self.state after the
\* attach, vpc_id after create_route; the one save_state is the last
\* statement.
sf_create_vpc ==
    SfCall("create_vpc", "create_vpc", Id14("vpc"),
           At(Made(deployer, "vpc", Id14("vpc")), "modify_vpc_attribute"))
sf_modify_vpc_attribute ==
    SfCall("modify_vpc_attribute", "modify_vpc_attribute", Id14("vpc"),
           At(deployer, "modify_vpc_attribute_2"))
sf_modify_vpc_attribute_2 ==
    SfCall("modify_vpc_attribute_2", "modify_vpc_attribute", Id14("vpc"),
           At(deployer, "create_internet_gateway"))
sf_create_internet_gateway ==
    SfCall("create_internet_gateway", "create_internet_gateway", Id14("igw"),
           At(Made(deployer, "internet_gateway", Id14("igw")),
              "attach_internet_gateway"))
sf_attach_internet_gateway ==
    SfCall("attach_internet_gateway", "attach_internet_gateway", Id14("igw"),
           At(Put(deployer, "igw_id", PyStr(Id14("igw"))), "describe_route_tables"))
sf_describe_route_tables ==
    SfCall("describe_route_tables", "", NoId, At(deployer, "create_route"))
sf_create_route ==
    SfCallSave("create_route", "create_route", Id14("vpc"),
               Enter("get_subnet_ids", Put(deployer, "vpc_id", PyStr(Id14("vpc")))))

\* deploy.py:78-104: get_subnet_ids; the list is saved after the last subnet.
sf_create_subnet ==
    SfCall("create_subnet", "create_subnet", SubnetId14(deployer.i + 1),
           At(Made(deployer, "subnet", SubnetId14(deployer.i + 1)),
              "modify_subnet_attribute"))
sf_modify_subnet_attribute ==
    /\ deployer.pc = "modify_subnet_attribute"
    /\ LET d == Called([deployer EXCEPT !.i = @ + 1], "modify_subnet_attribute",
                       SubnetId14(deployer.i + 1))
           ids == [k \in 1..deployer.config.subnets |-> PyStr(SubnetId14(k))]
       IN  \/ IF d.i < deployer.config.subnets
              THEN SfGo(At(d, "create_subnet"))
              ELSE SfSave(Enter("create_security_groups",
                                Put(d, "subnet_ids", PyList(ids))))
           \/ SfRaise("modify_subnet_attribute", SubnetId14(deployer.i + 1))

\* deploy.py:106-157: create_security_groups; both identifiers are saved
\* after the second authorize call.
sf_create_alb_sg ==
    SfCall("create_alb_sg", "create_security_group", Id14("alb-sg"),
           At(Made(deployer, "security_group", Id14("alb-sg")), "authorize_alb_sg"))
sf_authorize_alb_sg ==
    SfCall("authorize_alb_sg", "authorize_security_group_ingress", Id14("alb-sg"),
           At(deployer, "create_ec2_sg"))
sf_create_ec2_sg ==
    SfCall("create_ec2_sg", "create_security_group", Id14("ec2-sg"),
           At(Made(deployer, "security_group", Id14("ec2-sg")), "authorize_ec2_sg"))
sf_authorize_ec2_sg ==
    SfCallSave("authorize_ec2_sg", "authorize_security_group_ingress", Id14("ec2-sg"),
               Enter("create_launch_template",
                     Put(Put(deployer, "alb_sg_id", PyStr(Id14("alb-sg"))),
                         "ec2_sg_id", PyStr(Id14("ec2-sg")))))

\* deploy.py:160-220: with a launch_template_id in the config, a version of
\* that template is created and its number kept.
sf_describe_launch_template_versions ==
    SfCall("describe_launch_template_versions", "", NoId,
           At(deployer, "create_launch_template_version"))
sf_create_launch_template_version ==
    SfCallSave("create_launch_template_version", "create_launch_template_version",
               deployer.config.launch_template_id,
               Enter("create_target_group",
                     Put(Put(deployer, "launch_template_id",
                             PyStr(deployer.config.launch_template_id)),
                         "launch_template_version", PyInt(deployer.run + 1))))

\* deploy.py:222-263: without one, a template is created.
sf_describe_images ==
    SfCall("describe_images", "", NoId, At(deployer, "create_launch_template"))
sf_create_launch_template ==
    SfCallSave("create_launch_template", "create_launch_template", Id14("lt"),
               Enter("create_target_group",
                     Put(Made(deployer, "launch_template", Id14("lt")),
                         "launch_template_id", PyStr(Id14("lt")))))

\* deploy.py:277-302
sf_create_target_group ==
    SfCallSave("create_target_group", "create_target_group", Id14("tg"),
               Enter("create_alb",
                     Put(Made(deployer, "target_group", Id14("tg")),
                         "target_group_arn", PyStr(Id14("tg")))))

\* deploy.py:304-340: create_alb; alb_arn and alb_dns are saved after the
\* listener is created.
sf_create_load_balancer ==
    SfCall("create_load_balancer", "create_load_balancer", Id14("alb"),
           At(Made(deployer, "alb", Id14("alb")), "create_listener"))
sf_create_listener ==
    SfCallSave("create_listener", "create_listener", Id14("alb"),
               Enter("create_asg",
                     Put(Put(deployer, "alb_arn", PyStr(Id14("alb"))),
                         "alb_dns", PyStr(Id14("dns")))))

\* deploy.py:342-391: create_asg; the name is saved after the policy is put.
sf_create_auto_scaling_group ==
    SfCall("create_auto_scaling_group", "create_auto_scaling_group", Id14("asg"),
           At(Made(deployer, "asg", Id14("asg")), "put_scaling_policy"))
sf_put_scaling_policy ==
    SfCallSave("put_scaling_policy", "put_scaling_policy", Id14("asg"),
               At(Put(deployer, "asg_name", PyStr(Id14("asg"))), "status"))

\* deploy.py:420-451: status reports no deployment when self.state has no
\* alb_dns; the errors of its describe calls are printed.
sf_status ==
    /\ deployer.pc = "status"
    /\ SfGo(SfEnd(deployer,
                  IF Has(deployer, "alb_dns") THEN "status_shown" ELSE "no_deployment",
                  ""))

sf_deploy ==
    \/ sf_create_vpc \/ sf_modify_vpc_attribute \/ sf_modify_vpc_attribute_2
    \/ sf_create_internet_gateway \/ sf_attach_internet_gateway
    \/ sf_describe_route_tables \/ sf_create_route
    \/ sf_create_subnet \/ sf_modify_subnet_attribute
    \/ sf_create_alb_sg \/ sf_authorize_alb_sg \/ sf_create_ec2_sg
    \/ sf_authorize_ec2_sg
    \/ sf_describe_launch_template_versions \/ sf_create_launch_template_version
    \/ sf_describe_images \/ sf_create_launch_template
    \/ sf_create_target_group \/ sf_create_load_balancer \/ sf_create_listener
    \/ sf_create_auto_scaling_group \/ sf_put_scaling_policy

\* The attempts of the retry loops of destroy (range(3)).
FileMaxRetries == 3

\* A delete of destroy answered with an error that its handler prints.
Printed(d, answer) == IF answer = "ok" THEN d ELSE [d EXCEPT !.error = "ClientError"]

\* A delete inside try/except Exception: whatever the answer, the next block.
SfDelete(at, op, id, next) ==
    /\ deployer.pc = at
    /\ \E answer \in {"ok", "DependencyViolation", "Other"}:
        SfGo(EnterD(next, Printed(Called(deployer, op, id), answer)))

\* deploy.py:530-538
sf_delete_auto_scaling_group ==
    SfDelete("delete_auto_scaling_group", "delete_auto_scaling_group",
             deployer.state["asg_name"].v, "launch_template")

\* deploy.py:540-549: the template is deleted unless it is the one the
\* config names.
sf_delete_launch_template ==
    SfDelete("delete_launch_template", "delete_launch_template",
             deployer.state["launch_template_id"].v, "alb")

\* deploy.py:551-562: the listeners are listed and deleted, then the load
\* balancer; an error of the listing or of the delete of the load balancer is
\* printed.
sf_describe_listeners ==
    /\ deployer.pc = "describe_listeners"
    /\ \/ SfGo(At(deployer, "delete_listener"))
       \/ SfGo(At(deployer, "delete_load_balancer"))
       \/ SfGo(EnterD("target_group", Printed(deployer, "Other")))
sf_delete_listener ==
    /\ deployer.pc = "delete_listener"
    /\ \E answer \in {"ok", "Other"}:
        SfGo(At(Printed(Called(deployer, "delete_listener",
                               deployer.state["alb_arn"].v), answer),
                "delete_load_balancer"))
sf_delete_load_balancer ==
    SfDelete("delete_load_balancer", "delete_load_balancer",
             deployer.state["alb_arn"].v, "target_group")

\* deploy.py:564-569
sf_delete_target_group ==
    SfDelete("delete_target_group", "delete_target_group",
             deployer.state["target_group_arn"].v, "cleanup")

\* deploy.py:477-500, 571-572: the available interfaces of the VPC are
\* detached and deleted; every exception is swallowed.
sf_cleanup_network_interfaces ==
    /\ deployer.pc = "cleanup_network_interfaces"
    /\ SfGo(At(deployer, "cleanup_route_tables"))

\* deploy.py:502-525, 574-575: the same for the route table associations.
sf_cleanup_route_tables ==
    /\ deployer.pc = "cleanup_route_tables"
    /\ SfGo(EnterD("ec2_sg", deployer))

\* deploy.py:577-589
sf_delete_ec2_sg ==
    SfDelete("delete_ec2_sg", "delete_security_group",
             deployer.state["ec2_sg_id"].v, "alb_sg")
sf_delete_alb_sg ==
    SfDelete("delete_alb_sg", "delete_security_group",
             deployer.state["alb_sg_id"].v, "subnet")

\* A ClientError of a retry loop: tried again on DependencyViolation before
\* the last attempt, printed otherwise.
sf_retry(answer, attempt) ==
    answer = "DependencyViolation" /\ attempt < FileMaxRetries - 1

\* deploy.py:591-603
sf_delete_subnet ==
    /\ deployer.pc = "delete_subnet"
    /\ LET ids == deployer.state["subnet_ids"].v
           d == Called(deployer, "delete_subnet", ids[deployer.i].v)
           after == IF deployer.i < Len(ids)
                    THEN [d EXCEPT !.i = @ + 1, !.attempt = 0]
                    ELSE EnterD("igw", d)
       IN  \E answer \in {"ok", "DependencyViolation", "Other"}:
            IF sf_retry(answer, deployer.attempt)
            THEN SfGo(Printed([d EXCEPT !.attempt = @ + 1], answer))
            ELSE SfGo(Printed(after, answer))

\* deploy.py:605-621: detach, then delete, in one try.
sf_detach_internet_gateway ==
    /\ deployer.pc = "detach_internet_gateway"
    /\ LET d == Called(deployer, "detach_internet_gateway", deployer.state["igw_id"].v)
       IN  \E answer \in {"ok", "DependencyViolation", "Other"}:
            IF answer = "ok" THEN SfGo(At(d, "delete_internet_gateway"))
            ELSE IF sf_retry(answer, deployer.attempt)
            THEN SfGo(Printed([d EXCEPT !.attempt = @ + 1], answer))
            ELSE SfGo(EnterD("vpc", Printed(d, answer)))
sf_delete_internet_gateway ==
    /\ deployer.pc = "delete_internet_gateway"
    /\ LET d == Called(deployer, "delete_internet_gateway", deployer.state["igw_id"].v)
       IN  \E answer \in {"ok", "DependencyViolation", "Other"}:
            IF sf_retry(answer, deployer.attempt)
            THEN SfGo(At(Printed([d EXCEPT !.attempt = @ + 1], answer),
                         "detach_internet_gateway"))
            ELSE SfGo(EnterD("vpc", Printed(d, answer)))

\* deploy.py:623-636
sf_delete_vpc ==
    /\ deployer.pc = "delete_vpc"
    /\ LET d == Called(deployer, "delete_vpc", deployer.state["vpc_id"].v)
       IN  \E answer \in {"ok", "DependencyViolation", "Other"}:
            IF sf_retry(answer, deployer.attempt)
            THEN SfGo(Printed([d EXCEPT !.attempt = @ + 1], answer))
            ELSE SfGo(At(Printed(d, answer), "reset"))

\* deploy.py:638-639 without the reset of self.state.
sf_reset_kept ==
    /\ deployer.pc = "reset"
    /\ state_file' = save_state(state_file, deployer.env, deployer.state)
    /\ deployer' = SfEnd(deployer, "destroyed", deployer.error)
    /\ UNCHANGED <<storeVars, provVars, cfg, cmdVars, destroyVars, aloc, app>>

\* deploy.py:638-639: self.state = {} and save_state.
sf_reset ==
    /\ deployer.pc = "reset"
    /\ SfSave(SfEnd(deployer, "destroyed", deployer.error))

sf_destroy ==
    \/ sf_delete_auto_scaling_group \/ sf_delete_launch_template
    \/ sf_describe_listeners \/ sf_delete_listener \/ sf_delete_load_balancer
    \/ sf_delete_target_group
    \/ sf_cleanup_network_interfaces \/ sf_cleanup_route_tables
    \/ sf_delete_ec2_sg \/ sf_delete_alb_sg \/ sf_delete_subnet
    \/ sf_detach_internet_gateway \/ sf_delete_internet_gateway \/ sf_delete_vpc
    \/ sf_reset

\* ----------------------------------------- 14-10-2026: the dashboard (app.py)
\* The request threads of the server (async_mode='threading') and the calls
\* of start_stress and stop_stress each of them may make.
MaxThreads == 2
MaxCalls == 2
Threads == 1..MaxThreads

\* A thread outside start_stress and stop_stress: the function it called
\* last, what `if stress_running` read in it, whether its Popen gave a
\* process, what it returned, its local proc, the pkill loop counter and
\* the calls it may still make.
NoThread ==
    [pc |-> "idle", op |-> "", saw |-> FALSE, spawned |-> FALSE,
     ret |-> "none", proc |-> 0, n |-> 0, calls |-> MaxCalls]

\* app.py:16-18: the module's globals (0 is None; stress_lock holds the
\* thread that has it, 0 when it is free), with the stress-ng processes
\* that Popen started and no stop_stress has signalled, and the number of
\* processes started so far.
NoApp ==
    [stress_process |-> 0, stress_running |-> FALSE, stress_lock |-> 0,
     thread |-> [t \in Threads |-> NoThread], procs |-> {}, pids |-> 0]

\* A lock that is never held.
LockFree_always(a) == TRUE
\* app.py:18: threading.Lock; `with stress_lock` proceeds when it is free.
LockFree(a) == a.stress_lock = 0

\* A thread of the dashboard takes a step.
AppGo(a, t, th) ==
    /\ app' = [a EXCEPT !.thread[t] = th]
    /\ UNCHANGED <<storeVars, provVars, cfg, cmdVars, destroyVars, aloc,
                   state_file, deployer>>

\* Leaving the `with stress_lock` block by a return or an exception.
AppReturn(a, t, ret) ==
    AppGo([a EXCEPT !.stress_lock = 0], t,
          [a.thread[t] EXCEPT !.pc = "idle", !.ret = ret, !.proc = 0, !.n = 0])

AppCall(t, op) ==
    /\ app.thread[t].pc = "idle"
    /\ app.thread[t].calls > 0
    /\ AppGo(app, t, [NoThread EXCEPT !.pc = op \o "_acquire", !.op = op,
                                      !.calls = app.thread[t].calls - 1])

AppAcquire(t, op, next) ==
    /\ app.thread[t].pc = op \o "_acquire"
    /\ LockFree(app)
    /\ AppGo([app EXCEPT !.stress_lock = t], t,
             [app.thread[t] EXCEPT !.pc = next])

\* app.py:83-85
start_stress_call(t) ==
    /\ app.thread[t].pc = "idle"
    /\ AppCall(t, "start")
start_acquire(t) ==
    /\ app.thread[t].op = "start"
    /\ AppAcquire(t, "start", "start_check")

\* app.py:86-87
start_check(t) ==
    /\ app.thread[t].pc = "start_check"
    /\ LET th == [app.thread[t] EXCEPT !.saw = app.stress_running]
       IN  IF app.stress_running
           THEN AppReturn([app EXCEPT !.thread[t] = th], t, "False")
           ELSE AppGo(app, t, [th EXCEPT !.pc = "start_workers"])

\* app.py:89-90: psutil.cpu_count() gives a number, or None, which int()
\* of the product refuses: the TypeError is raised outside the try.
start_workers(t) ==
    /\ app.thread[t].pc = "start_workers"
    /\ \/ AppGo(app, t, [app.thread[t] EXCEPT !.pc = "start_popen"])
       \/ AppReturn(app, t, "raised")

\* app.py:92-98, 102-104: Popen starts stress-ng, or raises and
\* start_stress returns False.
start_popen(t) ==
    /\ app.thread[t].pc = "start_popen"
    /\ \/ LET pid == app.pids + 1
          IN  AppGo([app EXCEPT !.pids = pid, !.procs = @ \cup {pid}], t,
                    [app.thread[t] EXCEPT !.pc = "start_set_process",
                                          !.proc = pid, !.spawned = TRUE])
       \/ AppReturn(app, t, "False")

\* app.py:99
start_set_process(t) ==
    /\ app.thread[t].pc = "start_set_process"
    /\ AppGo([app EXCEPT !.stress_process = app.thread[t].proc], t,
             [app.thread[t] EXCEPT !.pc = "start_set_running"])

\* app.py:100-101
start_set_running(t) ==
    /\ app.thread[t].pc = "start_set_running"
    /\ AppReturn([app EXCEPT !.stress_running = TRUE], t, "True")

start_stress(t) ==
    \/ start_stress_call(t) \/ start_acquire(t) \/ start_check(t)
    \/ start_workers(t) \/ start_popen(t) \/ start_set_process(t)
    \/ start_set_running(t)

\* app.py:106-108
stop_stress_call(t) ==
    /\ app.thread[t].pc = "idle"
    /\ AppCall(t, "stop")
stop_acquire(t) ==
    /\ app.thread[t].op = "stop"
    /\ AppAcquire(t, "stop", "stop_clear")

\* app.py:109-111
stop_clear(t) ==
    /\ app.thread[t].pc = "stop_clear"
    /\ AppGo([app EXCEPT !.stress_running = FALSE], t,
             [app.thread[t] EXCEPT
                  !.pc = IF app.stress_process # 0 THEN "stop_kill"
                         ELSE "stop_pkill"])

\* app.py:112-118: the process group is signalled, or the process is when
\* that raises; a process that cannot be signalled is gone.
stop_kill(t) ==
    /\ app.thread[t].pc = "stop_kill"
    /\ AppGo([app EXCEPT !.procs = @ \ {app.stress_process}], t,
             [app.thread[t] EXCEPT !.pc = "stop_forget"])

\* app.py:119
stop_forget(t) ==
    /\ app.thread[t].pc = "stop_forget"
    /\ AppGo([app EXCEPT !.stress_process = 0], t,
             [app.thread[t] EXCEPT !.pc = "stop_pkill"])

\* app.py:121-131: pkill -9 stress-ng, at most three times: it killed what
\* there was and is run again, or found nothing, or timed out.
PkillRuns == 3
stop_pkill(t) ==
    /\ app.thread[t].pc = "stop_pkill"
    /\ IF app.thread[t].n >= PkillRuns
       THEN AppReturn(app, t, "None")
       ELSE \/ AppGo([app EXCEPT !.procs = {}], t,
                     [app.thread[t] EXCEPT !.n = @ + 1])
            \/ AppReturn(app, t, "None")

stop_stress(t) ==
    \/ stop_stress_call(t) \/ stop_acquire(t) \/ stop_clear(t)
    \/ stop_kill(t) \/ stop_forget(t) \/ stop_pkill(t)

\* ------------------------------------------------------------ specifications
\* Objects named like the tool's that exist without any Store row: made by
\* hand, by the other deployer, or left by an earlier destroy (key pairs).
Foreign(env) ==
    {Obj("key_pair", KeyId(env)), Obj("launch_template", <<"lt", env, 0>>),
     Obj("asg", AsgId(env))}

NoRuns ==
    [deploy |-> 0, destroy |-> 0, direct |-> 0, reinvoke |-> 0,
     again |-> "", first |-> NoLoc, status |-> 0, destroy_all |-> 0,
     store |-> 0, retried |-> ""]

\* config.yaml: the subnets listed, and the launch template referenced (if
\* any), which may or may not exist at the provider.
Configs ==
    {c \in [cfg: [subnets: 1..MaxSubnets, launch_template_id: {NoId, CfgLt}],
            live: SUBSET {Obj("launch_template", CfgLt)}]:
        c.cfg.launch_template_id = NoId => c.live = {}}

InitCommon ==
    /\ deployments = << >>
    /\ resources = << >>
    /\ clock = 1
    /\ nextId = 1
    /\ pc = "idle"
    /\ loc = NoLoc
    /\ calls = << >>
    /\ created = {}
    /\ outcome = "none"
    /\ dloc = NoDloc
    /\ dlog = << >>
    /\ aloc = NoAloc
    /\ state_file = NoState
    /\ deployer = NoDeployer
    /\ app = NoApp

\* One deploy, in an account that may hold objects of the tool's names.
InitDeploy ==
    /\ InitCommon
    /\ \E c \in Configs, F \in SUBSET Foreign("dev"):
        cfg = c.cfg /\ live = c.live \cup F
    /\ runs = [NoRuns EXCEPT !.deploy = 1]

NextDeploy == deploy \/ Stages
SpecDeploy == InitDeploy /\ [][NextDeploy]_vars

\* deploy run again and again in an empty account.
InitRerun ==
    /\ InitCommon
    /\ \E c \in Configs: cfg = c.cfg /\ live = c.live
    /\ runs = [NoRuns EXCEPT !.deploy = MaxDeploys]

SpecRerun == InitRerun /\ [][NextDeploy]_vars

\* The stage functions called directly, one of them a second time.
InitStage ==
    /\ InitCommon
    /\ \E c \in Configs: cfg = c.cfg /\ live = c.live
    /\ runs = [NoRuns EXCEPT !.direct = 1, !.reinvoke = MaxReinvoke]

NextStage == direct \/ Stages
SpecStage == InitStage /\ [][NextStage]_vars

\* One deploy and one destroy, in either order, in an account that may hold
\* a launch template of the tool's name.
InitDestroy ==
    /\ InitCommon
    /\ \E c \in Configs, F \in SUBSET {Obj("launch_template", <<"lt", "dev", 0>>)}:
        cfg = c.cfg /\ live = c.live \cup F
    /\ runs = [NoRuns EXCEPT !.deploy = 1, !.destroy = 1]

NextDestroy == deploy \/ Stages \/ destroy
SpecDestroy == InitDestroy /\ [][NextDestroy]_vars
\* The running command always takes its next step.
FairDestroy == SpecDestroy /\ WF_vars(NextDestroy)

\* ------------------------------------------------------- Stores left behind
\* The rows a deploy that ran to its end has written, in the order of the
\* add_resource calls, for a config with one subnet and no launch template.
FullRows(dep, env) ==
    << Row(dep, "vpc", GenId("vpc", 20 * dep + 1), "webapp-vpc"),
       Row(dep, "internet_gateway", GenId("igw", 20 * dep + 2), ""),
       Row(dep, "subnet", GenId("subnet", 20 * dep + 3), "webapp-subnet"),
       Row(dep, "route_table", GenId("rtb", 20 * dep + 4), ""),
       Row(dep, "security_group", GenId("sg", 20 * dep + 5), "alb-sg"),
       Row(dep, "security_group", GenId("sg", 20 * dep + 6), "ec2-sg"),
       Row(dep, "alb", GenId("alb", 20 * dep + 7), "webapp-alb"),
       Row(dep, "target_group", GenId("tg", 20 * dep + 8), "webapp-tg"),
       Row(dep, "listener", GenId("listener", 20 * dep + 9), ""),
       Row(dep, "key_pair", KeyId(env), "webapp-key"),
       Row(dep, "launch_template", <<"lt", env, 20 * dep + 10>>, "webapp-lt"),
       Row(dep, "asg", AsgId(env), "webapp-asg"),
       Row(dep, "scaling_policy", PolicyId(env), "webapp-scale-out"),
       Row(dep, "cloudwatch_alarm", AlarmHigh(env), "webapp-cpu-high"),
       Row(dep, "cloudwatch_alarm", AlarmLow(env), "webapp-cpu-low") >>

StoredEnvs == {"dev", "prod"}

\* What one earlier deploy left in the Store: its environment, the status it
\* ended with and the number of rows it had written.  A completed deploy wrote
\* all its rows; a failed one stopped after the vpc row or after the alb row;
\* one still in_progress raised before its first provider call or was killed
\* after the vpc row.
Left ==
    {d \in [env: StoredEnvs, status: {"completed", "failed", "in_progress"},
            k: {0, 1, 7, 15}]:
        \/ d.status = "completed" /\ d.k = 15
        \/ d.status = "failed" /\ d.k \in {1, 7}
        \/ d.status = "in_progress" /\ d.k \in {0, 1}}

StoredDeployments(f, n) ==
    [i \in 1..n |-> [environment |-> f[i].env, deployment_id |-> i,
                     created_at |-> i, status |-> f[i].status]]

RECURSIVE StoredRows(_, _)
StoredRows(f, n) ==
    IF n = 0 THEN << >>
    ELSE StoredRows(f, n - 1) \o SubSeq(FullRows(n, f[n].env), 1, f[n].k)

\* The Store after the deploys f[1..n], everything recorded still live, in
\* an account that also holds the objects F.
Stored(f, n, F) ==
    /\ deployments = StoredDeployments(f, n)
    /\ resources = StoredRows(f, n)
    /\ live = LiveOf(StoredRows(f, n)) \cup F
    /\ clock = n + 1
    /\ nextId = 20 * (n + 1)
    /\ pc = "idle"
    /\ loc = NoLoc
    /\ calls = << >>
    /\ created = {}
    /\ outcome = "none"
    /\ dloc = NoDloc
    /\ dlog = << >>
    /\ aloc = NoAloc
    /\ state_file = NoState
    /\ deployer = NoDeployer
    /\ app = NoApp

\* The Store after up to MaxStored deploys.
StoredCfg == [subnets |-> 1, launch_template_id |-> NoId]

InitStored ==
    /\ \E n \in 0..MaxStored: \E f \in [1..n -> Left]: Stored(f, n, {})
    /\ cfg = StoredCfg

\* status and the look-up of destroy, on a Store earlier deploys left.
InitLookup ==
    /\ InitStored
    /\ runs = [NoRuns EXCEPT !.status = 1, !.destroy = 1]

NextLookup == status \/ destroy_start
SpecLookup == InitLookup /\ [][NextLookup]_vars

\* The functions of state.py called on a Store earlier deploys left, with
\* the identifier of a deployment that exists or of one that does not.
StoreCalled(fn, env, id) ==
    /\ pc = "idle"
    /\ runs.store > 0
    /\ runs' = [runs EXCEPT !.store = @ - 1]
    /\ loc' = [NoLoc EXCEPT !.caller = fn, !.env = env, !.dep = id]
    /\ dloc' = [NoDloc EXCEPT !.dep = id, !.rows = get_resources(resources, id)]
    /\ outcome' = "returned"
    /\ UNCHANGED <<provVars, cfg, v14, aloc, pc, calls, created, dlog>>

\* state.py:125-133
delete_deployment ==
    \E id \in 1..(MaxStored + 1):
        /\ StoreCalled("delete_deployment", "", id)
        /\ resources' = delete_deployment_rows(resources, id)
        /\ deployments' = delete_deployment_row(deployments, id)
        /\ UNCHANGED clock

\* state.py:38-52
create_deployment_called ==
    \E env \in StoredEnvs, id \in 1..(MaxStored + 1):
        /\ StoreCalled("create_deployment", env, id)
        /\ deployments' = create_deployment(deployments, env, id, clock)
        /\ clock' = clock + 1
        /\ UNCHANGED resources

InitStore ==
    /\ InitStored
    /\ runs = [NoRuns EXCEPT !.store = 2]

NextStore == delete_deployment \/ create_deployment_called
SpecStore == InitStore /\ [][NextStore]_vars

\* One command sequence on a Store that earlier deploys of one environment
\* left: a deploy, or a status and a destroy in either order.
LeftWalk == {d \in Left: d.env = "dev" /\ d.k \in {1, 15}}

InitWalk ==
    \/ /\ runs = [NoRuns EXCEPT !.deploy = 1]
       /\ \E n \in 1..MaxStored: \E f \in [1..n -> LeftWalk]: \E c \in Configs:
            cfg = c.cfg /\ Stored(f, n, c.live)
    \/ /\ runs = [NoRuns EXCEPT !.status = 1, !.destroy = 1]
       /\ \E n \in 1..MaxStored: \E f \in [1..n -> LeftWalk]: Stored(f, n, {})
       /\ cfg = StoredCfg

NextWalk == deploy \/ Stages \/ status \/ destroy
SpecWalk == InitWalk /\ [][NextWalk]_vars

\* destroy_all on a Store earlier deploys left, in an account that may hold
\* a VPC no deploy made.
ForeignVpc == <<"vpc", "foreign", 0>>

\* The deploys before a destroy_all: those of the second environment all
\* completed, the failed ones stopped after the vpc row.
LeftBulk ==
    {d \in Left: d.k \in {0, 1, 15} /\ (d.env = "prod" => d.status = "completed")}

InitBulk ==
    /\ \E n \in 0..MaxStored: \E f \in [1..n -> LeftBulk]:
        \E F \in SUBSET {Obj("vpc", ForeignVpc)}: Stored(f, n, F)
    /\ cfg = StoredCfg
    /\ runs = [NoRuns EXCEPT !.destroy_all = 1]

NextBulk == destroy_all
SpecBulk == InitBulk /\ [][NextBulk]_vars
\* The running command always takes its next step.
FairBulk == SpecBulk /\ WF_vars(NextBulk)

\* Two of the commands deploy, destroy and destroy_all, in either order.
InitAny ==
    /\ InitCommon
    /\ \E c \in Configs, F \in SUBSET {Obj("launch_template", <<"lt", "dev", 0>>)}:
        cfg = c.cfg /\ live = c.live \cup F
    /\ runs \in {[NoRuns EXCEPT !.deploy = 1, !.destroy = 1],
                 [NoRuns EXCEPT !.deploy = 1, !.destroy_all = 1],
                 [NoRuns EXCEPT !.destroy = 1, !.destroy_all = 1]}

NextAny == deploy \/ Stages \/ destroy \/ destroy_all
SpecAny == InitAny /\ [][NextAny]_vars

\* The state-file deployer, invoked MaxInvocations times with one config.
MaxInvocations == 3

\* The other deployer does not run.
Idle11 ==
    /\ deployments = << >>
    /\ resources = << >>
    /\ clock = 1
    /\ nextId = 1
    /\ live = {}
    /\ cfg = StoredCfg
    /\ pc = "idle"
    /\ loc = NoLoc
    /\ calls = << >>
    /\ created = {}
    /\ runs = NoRuns
    /\ outcome = "none"
    /\ dloc = NoDloc
    /\ dlog = << >>
    /\ aloc = NoAloc

InitFile ==
    /\ Idle11
    /\ state_file = NoState
    /\ app = NoApp
    /\ \E lt \in {NoId, CfgLt}, n \in 1..MaxSubnets:
        deployer = [NoDeployer EXCEPT
                        !.config = [launch_template_id |-> lt, subnets |-> n],
                        !.runs = MaxInvocations]

NextFile == sf_main \/ sf_deploy \/ sf_status \/ sf_destroy
SpecFile == InitFile /\ [][NextFile]_vars
\* The running command always takes its next step.
FairFile == SpecFile /\ WF_vars(NextFile)

\* The dashboard: its threads call start_stress and stop_stress in any
\* interleaving.
InitApp ==
    /\ Idle11
    /\ state_file = NoState
    /\ deployer = NoDeployer
    /\ app = NoApp

NextApp == \E t \in Threads: start_stress(t) \/ stop_stress(t)
SpecApp == InitApp /\ [][NextApp]_vars

\* Either deployer: a deploy and a destroy of the first, or the invocations
\* of the second.
InitEither == InitDestroy \/ InitFile
NextEither == NextDestroy \/ NextFile
SpecEither == InitEither /\ [][NextEither]_vars

\* ---------------------------------------------------------------- properties
\* C1: destroy never aborts on a provider error of a delete-related call,
\* the calls on the autoscaling group included: the walk goes on and
\* delete_deployment is reached.  (The group's calls stand outside any inner
\* try, so their errors reach the handler of deploy.py:646-648.)
C1_DestroyNeverAborts == outcome # "destroy_raised"

\* C2: every polling wait of destroy ends after a bounded number of polls even
\* when the awaited condition never becomes true, and the next step runs.
PollingWaits == {"d_asg_wait", "d_asg_sleep", "d_alb_wait", "d_ni_wait"}
C2_PollingWaitsEnd == (pc \in PollingWaits) ~> (pc \notin PollingWaits)

\* C3: a deploy run after a deploy of the environment that aborted with a vpc
\* row in the Store issues no create_vpc call: the recorded stage is resumed.
C3_RerunResumes ==
    \A i \in 1..Len(deployments):
        (/\ loc.caller = "deploy"
         /\ deployments[i].status = "failed"
         /\ deployments[i].environment = loc.env
         /\ deployments[i].deployment_id # loc.dep
         /\ has_resource(resources, deployments[i].deployment_id, "vpc"))
        => "create_vpc" \notin Range(calls)

\* The creation stage order as the specification lists it, by resource type.
StatedRank(t) ==
    CASE t = "vpc" -> 1
      [] t = "internet_gateway" -> 2
      [] t = "subnet" -> 3
      [] t = "route_table" -> 4
      [] t = "security_group" -> 5
      [] t = "key_pair" -> 6
      [] t = "launch_template" -> 7
      [] t = "target_group" -> 8
      [] t = "alb" -> 9
      [] t = "listener" -> 10
      [] t = "asg" -> 11
      [] t = "scaling_policy" -> 12
      [] t = "cloudwatch_alarm" -> 13
      [] OTHER -> 0

\* The order of the delete blocks of destroy, by resource type.
WalkRank(t) ==
    CASE t = "scaling_policy" -> 1
      [] t = "cloudwatch_alarm" -> 2
      [] t = "asg" -> 3
      [] t = "launch_template" -> 4
      [] t = "listener" -> 5
      [] t = "target_group" -> 6
      [] t = "alb" -> 7
      [] t = "security_group" -> 8
      [] t = "route_table" -> 9
      [] t = "subnet" -> 10
      [] t = "internet_gateway" -> 11
      [] t = "vpc" -> 12
      [] OTHER -> 0

StatedCallRank(op) ==
    CASE op = "create_vpc" -> 1
      [] op = "create_internet_gateway" -> 2
      [] op = "create_subnet" -> 3
      [] op = "create_route_table" -> 4
      [] op = "create_security_group" -> 5
      [] op = "create_key_pair" -> 6
      [] op = "create_launch_template" -> 7
      [] op = "create_target_group" -> 8
      [] op = "create_load_balancer" -> 9
      [] op = "create_listener" -> 10
      [] op = "create_auto_scaling_group" -> 11
      [] op = "put_scaling_policy" -> 12
      [] op = "put_metric_alarm" -> 13
      [] OTHER -> 0

\* The same calls ranked by the order in which the stage functions issue them.
IssuedCallRank(op) ==
    CASE op = "create_vpc" -> 1
      [] op = "create_internet_gateway" -> 2
      [] op = "create_subnet" -> 3
      [] op = "create_route_table" -> 4
      [] op = "create_security_group" -> 5
      [] op = "create_load_balancer" -> 6
      [] op = "create_target_group" -> 7
      [] op = "create_listener" -> 8
      [] op = "create_key_pair" -> 9
      [] op = "create_launch_template" -> 10
      [] op = "create_auto_scaling_group" -> 11
      [] op = "put_scaling_policy" -> 12
      [] op = "put_metric_alarm" -> 13
      [] OTHER -> 0

CreateCalls == {k \in 1..Len(calls): StatedCallRank(calls[k]) > 0}

\* C5 as stated: the create calls of a deploy follow the stated order: no
\* create call of a later stage comes before one of an earlier stage.
C5_StatedCreateOrder ==
    loc.caller = "deploy" =>
        \A a, b \in CreateCalls:
            a < b => StatedCallRank(calls[a]) <= StatedCallRank(calls[b])

\* C5 amended: the create calls of a deploy come in the order network,
\* gateway, subnets, route-table, security-groups, load-balancer,
\* target-group, listener, key-pair, launch-template, autoscaling-group,
\* scaling-policy, alarms.
C5_IssuedCreateOrder ==
    loc.caller = "deploy" =>
        \A a, b \in CreateCalls:
            a < b => IssuedCallRank(calls[a]) <= IssuedCallRank(calls[b])

\* A deploy that completed having issued a create call of each of the kinds.
C5_FullDeploy ==
    /\ loc.caller = "deploy"
    /\ outcome = "completed"
    /\ {IssuedCallRank(calls[k]): k \in CreateCalls} = 1..13

\* C6: at every point where deploy aborts, every object this deploy created
\* at the provider has a Store row of the deployment.
RecordedTypes ==
    {"vpc", "internet_gateway", "subnet", "route_table", "security_group",
     "alb", "target_group", "listener", "launch_template", "asg"}
C6_CreatedIsRecorded ==
    (loc.caller = "deploy" /\ outcome = "raised") =>
        \A o \in created:
            o.type \in RecordedTypes =>
                \E k \in 1..Len(resources):
                    /\ resources[k].deployment_id = loc.dep
                    /\ resources[k].resource_type = o.type
                    /\ resources[k].resource_id = o.id

\* C7: a stage function invoked again with the same deployment id after it
\* succeeded, its objects still live, issues no mutating provider call;
\* stated here for create_scaling_policies.
C7_ReinvokeIssuesNoCall ==
    (loc.caller = "direct" /\ runs.again = "create_scaling_policies")
        => calls = << >>

\* C8: a create call answered name-already-in-use, for an object without a
\* Store row, does not make deploy fail; stated here for the autoscaling
\* group, whose create call is refused while a group of the name exists.
C8_ConflictDoesNotFail ==
    ~(/\ loc.caller = "deploy"
      /\ outcome = "raised"
      /\ loc.stage = "create_asg"
      /\ calls # << >>
      /\ calls[Len(calls)] = "create_auto_scaling_group"
      /\ Obj("asg", AsgId(loc.env)) \in live
      /\ ~has_resource(resources, loc.dep, "asg"))

\* C9: a not-found answer for a recorded resource of any type, the
\* autoscaling group included, is treated as success: destroy does not raise
\* on it.
C9_NotFoundIsSuccess ==
    ~(outcome = "destroy_raised" /\ dloc.raised_by[2] = "NotFound")

\* C10: a security-group, route-table, subnet or VPC delete answered
\* DependencyViolation n times and then success is attempted n + 1 times when
\* n < MaxRetries and deleted; when n >= MaxRetries it is attempted MaxRetries
\* times and skipped; no exception escapes and the walk is at the next row.
C10_BoundedRetry ==
    (dloc.last.type # "" /\ dloc.last.final = "ok") =>
        /\ dloc.last.type \in {"security_group", "route_table", "subnet", "vpc"}
        /\ dloc.last.attempts =
               IF dloc.last.n < MaxRetries THEN dloc.last.n + 1 ELSE MaxRetries
        /\ dloc.last.result =
               IF dloc.last.n < MaxRetries THEN "deleted" ELSE "skipped"
        /\ outcome = "running"
        /\ TypeAt(pc) = dloc.last.type
        /\ dloc.attempt = 0

\* The VPC delete was answered DependencyViolation on every one of its
\* MaxRetries attempts, though the provider would have answered success
\* afterwards, and was skipped; the subnet deletes came before it.
C10_Skipped ==
    /\ dloc.last.type = "vpc"
    /\ dloc.last.final = "ok"
    /\ dloc.last.n >= MaxRetries
    /\ dloc.last.result = "skipped"
    /\ \E k \in 1..Len(dlog): dlog[k] = "subnet"

\* The key of a Store row: (deployment id, resource type, remote id).
Triple(r) == <<r.deployment_id, r.resource_type, r.resource_id>>
NoDuplicateTriple(res) ==
    \A i, j \in 1..Len(res): Triple(res[i]) = Triple(res[j]) => i = j

\* C20: after every step no two Store rows share a triple, and a step that
\* records a triple already present leaves the number of rows unchanged.
C20_UniqueTriple ==
    [][/\ NoDuplicateTriple(resources')
       /\ (/\ resources' # resources
           /\ resources' # << >>
           /\ \E k \in 1..Len(resources):
                 Triple(resources[k]) = Triple(resources'[Len(resources')]))
          => Len(resources') = Len(resources)]_vars

\* create_scaling_policies ran a second time for the deployment and recorded
\* its policy again: the Store holds one scaling_policy row.
C20_Rerecorded ==
    /\ runs.again = "create_scaling_policies"
    /\ "put_scaling_policy" \in Range(calls)
    /\ Len(get_resources_of(resources, loc.dep, "scaling_policy")) = 1

\* C13: a deploy that created its deployment row and has ended, by returning
\* or by raising, leaves the row with status completed or failed: while no
\* command runs, no deployment is in_progress.
C13_StatusWrittenAtEnd ==
    pc = "idle" =>
        \A i \in 1..Len(deployments): deployments[i].status # "in_progress"

\* The status the Store holds for a deployment id.
StatusOf(deps, id) ==
    {deps[i].status: i \in {k \in 1..Len(deps): deps[k].deployment_id = id}}

\* C12 as stated: once a provider call of a deploy stage raised an error other
\* than a name conflict, deploy issues no further mutating call.
C12_AnyErrorEndsDeploy ==
    (loc.caller = "deploy" /\ loc.err_at >= 0) => Len(calls) = loc.err_at

\* C12 amended: an error a stage does not swallow ends deploy at once: the
\* status becomes failed, the error is re-raised, no delete call is issued and
\* the Store rows and provider objects stay as they were.  (The ClientError of
\* describe_key_pairs and of describe_launch_templates for the configured
\* template is swallowed, and the create call follows.)
C12_UnhandledErrorEndsDeploy ==
    [][(loc.caller = "deploy" /\ pc \notin {"idle", "deploy_session"}
        /\ outcome' = "raised")
       => /\ pc' = "idle"
          /\ StatusOf(deployments', loc.dep) = {"failed"}
          /\ resources' = resources
          /\ live' = live
          /\ dlog' = << >>
          /\ Len(calls') <= Len(calls) + 1]_vars

\* A deploy ended by an error after it recorded resources.
C12_FailedWithRows ==
    /\ loc.caller = "deploy"
    /\ outcome = "raised"
    /\ StatusOf(deployments, loc.dep) = {"failed"}
    /\ has_resource(resources, loc.dep, "alb")

Completed(deps, env) ==
    {i \in 1..Len(deps): deps[i].environment = env /\ deps[i].status = "completed"}

\* C14: status and destroy look up the completed deployment of the
\* environment with the greatest creation timestamp; when the environment has
\* none they issue no provider call and change no Store row.
C14_Lookup ==
    [][(pc = "idle" /\ (runs'.status < runs.status \/ runs'.destroy < runs.destroy))
       => LET done == Completed(deployments, dloc'.env)
          IN  IF done = {}
              THEN /\ outcome' = "no_deployment"
                   /\ pc' = "idle"
                   /\ dloc'.dep = 0
                   /\ dlog' = << >>
                   /\ UNCHANGED <<deployments, resources, live>>
              ELSE \E i \in done:
                   /\ dloc'.dep = deployments[i].deployment_id
                   /\ \A j \in done:
                        deployments[j].created_at <= deployments[i].created_at
                   /\ outcome' # "no_deployment"]_vars

\* destroy found no deployment for the environment although the Store holds an
\* in_progress deployment of it with a resource row, and a completed
\* deployment of another environment.
C14_Unaddressable ==
    /\ outcome = "no_deployment"
    /\ runs.destroy = 0
    /\ \E i \in 1..Len(deployments):
        /\ deployments[i].environment = dloc.env
        /\ deployments[i].status = "in_progress"
        /\ get_resources(resources, deployments[i].deployment_id) # << >>
    /\ \E i \in 1..Len(deployments):
        /\ deployments[i].environment # dloc.env
        /\ deployments[i].status = "completed"

\* The VPCs a vpc row of some deployment in the Store refers to.
Referenced(deps, res) ==
    {res[k].resource_id:
        k \in {j \in 1..Len(res):
                /\ res[j].resource_type = "vpc"
                /\ \E i \in 1..Len(deps):
                    deps[i].deployment_id = res[j].deployment_id}}

\* C15: when destroy_all has listed the VPCs, a listed VPC is classified
\* tracked if and only if a vpc row of some deployment in the Store refers
\* to it.
C15_TrackedIffReferenced ==
    pc = "da_confirm" =>
        \A v \in Range(aloc.all_vpc_ids):
            v \in aloc.tracked_vpc_ids <=> v \in Referenced(deployments, resources)

\* C16: when a confirmed destroy_all has ended and none of its provider
\* calls failed, no deployment it listed (completed or in_progress) has its
\* deployment row or a resource row left in the Store.
C16_ListedDeploymentsRemoved ==
    (outcome = "destroy_all_done" /\ ~aloc.failed_call) =>
        \A d \in Range(aloc.all_deployments):
            /\ StatusOf(deployments, d.deployment_id) = {}
            /\ get_resources(resources, d.deployment_id) = << >>

\* The steps of destroy_all up to and including the comparison of the typed
\* text.
BeforeConfirmed ==
    \/ pc = "idle" /\ runs'.destroy_all < runs.destroy_all
    \/ pc = "da_confirm"

\* C17: destroy_all changes no Store row and no provider object and issues
\* no teardown call up to the comparison of the typed text, and it goes on
\* past the comparison only when the text, lower-cased, is 'yes'; on any
\* other text it returns at once.
C17_NothingUnlessConfirmed ==
    [][/\ BeforeConfirmed =>
            /\ UNCHANGED <<deployments, resources, live>>
            /\ dlog' = << >>
            /\ pc' \in {"idle", "da_confirm", "da_destroy"}
       /\ pc = "da_confirm" =>
            IF lower(aloc'.confirm) = <<"y", "e", "s">>
            THEN pc' = "da_destroy"
            ELSE pc' = "idle" /\ outcome' = "cancelled"
       /\ (pc' \notin {"idle", "da_confirm"} /\ runs.destroy_all < 1) =>
            pc \in {"da_confirm", "da_destroy", "da_relist", "v_describe",
                    "v_delete", "v_ni_describe_instances", "v_ni_terminate",
                    "v_ni_waiter", "v_ni_delete", "v_ni_delete_again",
                    "v_ni_wait", "v_ni_check", "v_delete_vpc", "v_retry"}]_vars

\* destroy_all returned on a typed 'no' while the Store held rows and the
\* account a VPC.
C17_Cancelled ==
    /\ outcome = "cancelled"
    /\ aloc.confirm = <<"n", "o">>
    /\ resources # << >>
    /\ aloc.all_vpc_ids # << >>

\* The statements of destroy_vpc_and_resources.
VPcs == {"v_describe", "v_delete", "v_ni_describe_instances", "v_ni_terminate",
         "v_ni_waiter", "v_ni_delete", "v_ni_delete_again", "v_ni_wait",
         "v_ni_check", "v_delete_vpc", "v_retry"}

\* A step of destroy_vpc_and_resources that ends the call: destroy_all has
\* the control again, or the routine was called for the next VPC.
VEnds == pc \in VPcs /\ (pc' \notin VPcs \/ aloc'.todo # aloc.todo)

\* destroy_vpc_and_resources never raises: a step of it never ends
\* destroy_all with an error, and a step that ends the call returns True or
\* False to the loop, which records a False and goes on with the next VPC,
\* with the second listing or with the end of destroy_all.
VStaysInside ==
    /\ outcome' # "raised"
    /\ VEnds =>
        /\ aloc'.success \in {"True", "False"}
        /\ aloc'.success = "False" <=> aloc.vpc_id \in aloc'.failed_vpcs
        /\ \/ pc' = "v_describe" /\ aloc'.vpc_id = Head(aloc.todo)
           \/ pc' = "da_relist" /\ aloc.todo = << >> /\ aloc.pass = 1
           \/ /\ pc' = "idle" /\ outcome' = "destroy_all_done"
              /\ aloc.todo = << >> /\ aloc.pass = 2

VNeverRaises == [][(pc \in VPcs) => VStaysInside]_vars

AfterDeleteVpc ==
    /\ aloc'.answer = "ok" =>
        /\ VEnds /\ aloc'.success = "True"
        /\ Obj("vpc", aloc.vpc_id) \notin live'
    /\ aloc'.answer = "Other" => VEnds /\ aloc'.success = "False"
    /\ aloc'.answer = "DependencyViolation" =>
        \/ pc' = "v_retry" /\ aloc.attempt < 2
        \/ VEnds /\ aloc'.success = "False" /\ aloc.attempt = 2

\* C19: within one call of destroy_vpc_and_resources delete_vpc is attempted
\* at most three times; another attempt is made only after the answer
\* DependencyViolation; any other error ends the call with False after that
\* attempt, and a success ends it with True.
C19_DeleteVpcAttempts ==
    [][/\ (pc' = "v_delete_vpc") => aloc'.attempt < 3
       /\ (pc = "v_delete_vpc") => AfterDeleteVpc
       /\ (pc' = "v_delete_vpc" /\ aloc'.attempt > 0 /\ ~VEnds) =>
            /\ pc = "v_retry"
            /\ aloc.answer = "DependencyViolation"
            /\ aloc'.attempt = aloc.attempt + 1
            /\ aloc'.vpc_id = aloc.vpc_id]_vars

\* The third attempt was answered DependencyViolation and the call returned
\* False.
C19_ThirdAttemptGaveUp ==
    /\ pc \in {"da_relist", "idle"}
    /\ aloc.success = "False"
    /\ aloc.attempt = 2
    /\ aloc.answer = "DependencyViolation"

\* The deployment rows and the resource rows of the deployments other than id.
OtherRows(deps, res, id) ==
    <<SelectSeq(deps, LAMBDA d: d.deployment_id # id),
      SelectSeq(res, LAMBDA r: r.deployment_id # id)>>

\* C21: delete_deployment(id) leaves no resource row and no deployment row
\* of id, and the rows of every other deployment as they were.
C21_DeleteDeployment ==
    [][loc'.caller = "delete_deployment" =>
        /\ get_resources(resources', loc'.dep) = << >>
        /\ StatusOf(deployments', loc'.dep) = {}
        /\ OtherRows(deployments', resources', loc'.dep)
             = OtherRows(deployments, resources, loc'.dep)]_vars

\* delete_deployment removed the rows of a deployment that had resource
\* rows, in a Store that holds another deployment with resource rows.
C21_DeletedAmongOthers ==
    /\ loc.caller = "delete_deployment"
    /\ dloc.rows # << >>
    /\ deployments # << >>
    /\ resources # << >>

\* C22: create_deployment with the identifier of a deployment that exists
\* adds no row, leaves the existing row as it was and returns.
C22_CreateDeploymentIdempotent ==
    [][(loc'.caller = "create_deployment" /\ StatusOf(deployments, loc'.dep) # {})
        => deployments' = deployments /\ outcome' = "returned"]_vars

\* create_deployment returned for the identifier of a completed deployment
\* of the other environment.
C22_CreatedExisting ==
    /\ loc.caller = "create_deployment"
    /\ \E i \in 1..Len(deployments):
        /\ deployments[i].deployment_id = loc.dep
        /\ deployments[i].environment # loc.env
        /\ deployments[i].status = "completed"
        /\ deployments[i].created_at < clock - 1

\* The number of Store rows of a type that a deployment owns.
Count(res, dep, t) == Len(get_resources_of(res, dep, t))

\* A deploy with one configured subnet has completed and none of its create
\* calls was refused.
CleanDeployEnded ==
    /\ loc.caller = "deploy"
    /\ outcome = "completed"
    /\ cfg.subnets = 1
    /\ ~loc.refused

StageTypes ==
    {"vpc", "internet_gateway", "subnet", "route_table", "security_group",
     "key_pair", "launch_template", "target_group", "alb", "listener", "asg",
     "scaling_policy", "cloudwatch_alarm"}

\* C23 as stated: such a deploy leaves status completed and exactly one
\* Store row for each stage of the chain.
C23_OneRowPerStage ==
    CleanDeployEnded =>
        /\ StatusOf(deployments, loc.dep) = {"completed"}
        /\ \A t \in StageTypes: Count(resources, loc.dep, t) = 1

\* The rows such a deploy leaves, by type: two security groups (the load
\* balancer's and the instances'), two alarms (cpu-high and cpu-low), and no
\* launch template when the one the config names was found.
RowsOfCleanDeploy(t) ==
    CASE t \in {"security_group", "cloudwatch_alarm"} -> 2
      [] t = "launch_template" ->
            IF loc.launch_template_id = cfg.launch_template_id THEN 0 ELSE 1
      [] OTHER -> 1

\* C23, amended: such a deploy leaves status completed, one row for each
\* stage but two security-group rows and two alarm rows, and a
\* launch-template row only when deploy created the template.
C23_RowsPerStage ==
    CleanDeployEnded =>
        /\ StatusOf(deployments, loc.dep) = {"completed"}
        /\ \A t \in StageTypes: Count(resources, loc.dep, t) = RowsOfCleanDeploy(t)
        /\ Len(get_resources(resources, loc.dep)) = 14 + RowsOfCleanDeploy("launch_template")

\* Such a deploy ended in an account without objects of the tool's names,
\* having created its own launch template.
C23_CleanDeploy ==
    /\ CleanDeployEnded
    /\ cfg.launch_template_id = NoId
    /\ Cardinality({k \in 1..Len(calls): calls[k] = "create_launch_template"}) = 1
    /\ Cardinality({k \in 1..Len(calls): calls[k] = "create_key_pair"}) = 1

\* The calls of a name that the running invocation issued.
Issued(op) == {k \in 1..Len(calls): calls[k] = op}

\* C24: a deploy that found the launch template its config references and
\* went on to create the autoscaling group issued no create_launch_template
\* and exactly one create_launch_template_version.
C24_ConfiguredTemplateForked ==
    (/\ loc.caller = "deploy"
     /\ cfg.launch_template_id # NoId
     /\ loc.launch_template_id = cfg.launch_template_id
     /\ Issued("create_auto_scaling_group") # {})
        => /\ Issued("create_launch_template") = {}
           /\ Cardinality(Issued("create_launch_template_version")) = 1

\* C25: when a destroy of an environment has ended, after a deploy of that
\* environment failed partway, the failed deployment has no row left in the
\* Store: the destroy addressed it.
C25_DestroyAddressesFailed ==
    (pc = "idle" /\ outcome \in {"no_deployment", "destroyed"}) =>
        \A i \in 1..Len(deployments):
            (deployments[i].environment = dloc.env /\ deployments[i].status = "failed")
                => get_resources(resources, deployments[i].deployment_id) = << >>

\* The recorded object of a type of the running deployment id is live.
RecordedLive(t) ==
    /\ has_resource(resources, loc.dep, t)
    /\ Obj(t, get_resource_by_type(resources, loc.dep, t).resource_id) \in live

\* C26: a stage function invoked again creates no VPC while the VPC recorded
\* for the deployment id is live, and no load balancer while the recorded
\* load balancer is live.
C26_NoSecondCreate ==
    [][/\ (pc = "cv_create_vpc" /\ pc' = "cv_modify_hostnames")
            => ~RecordedLive("vpc")
       /\ (pc \in {"ca_create_lb", "ca_create_lb2"} /\ pc' = "ca_tg")
            => ~RecordedLive("alb")]_vars

\* Every deployment row and every resource row is still in the Store after
\* the step (a resource row is the row of its triple).
KeepsRows ==
    /\ \A i \in 1..Len(deployments):
        StatusOf(deployments', deployments[i].deployment_id) # {}
    /\ \A k \in 1..Len(resources):
        \E j \in 1..Len(resources'): Triple(resources'[j]) = Triple(resources[k])

\* The last step of a destroy walk removes the rows of the deployment that
\* destroy looked up, and no row of another deployment.
RemovesLookedUp ==
    /\ dloc.dep # 0
    /\ get_resources(resources', dloc.dep) = << >>
    /\ StatusOf(deployments', dloc.dep) = {}
    /\ OtherRows(deployments', resources', dloc.dep)
         = OtherRows(deployments, resources, dloc.dep)

\* C27: rows leave the Store only in the last step of a destroy walk, which
\* removes the rows of the one deployment looked up; every step of deploy,
\* of status and of a destroy that raises keeps every row.
C27_RowsLeaveAtWalkEnd ==
    [][IF pc = "d_delete_deployment" THEN RemovesLookedUp ELSE KeepsRows]_vars

\* A destroy completed and removed the rows of the newest completed
\* deployment, while an older completed deployment of the same environment
\* keeps its rows.
C27_OlderDeploymentKept ==
    /\ outcome = "destroyed"
    /\ StatusOf(deployments, dloc.dep) = {}
    /\ \E i \in 1..Len(deployments):
        /\ deployments[i].environment = dloc.env
        /\ deployments[i].status = "completed"
        /\ deployments[i].deployment_id < dloc.dep
        /\ Len(get_resources(resources, deployments[i].deployment_id)) = 15

\* C28: while destroy_vpc_and_resources runs, the VPC it was called for is
\* one that destroy_all classified untracked.
C28_RoutineOnUntrackedOnly ==
    pc \in VPcs => aloc.vpc_id \notin aloc.tracked_vpc_ids

\* C29: when destroy_vpc_and_resources turns to the subnets of the VPC, a
\* delete has been issued for every load balancer and for every target group
\* the VPC holds.
C29_BalancersAndGroupsBeforeSubnets ==
    (pc \in {"v_describe", "v_delete"} /\ aloc.phase = "subnet")
        => (aloc.albs # "held" /\ aloc.tgs # "held")

\* C30: destroy_vpc_and_resources issues delete_network_interface for an
\* interface attached to an instance that is neither terminated nor shutting
\* down only after terminate_instances was issued for the instance and the
\* wait for its terminal state completed.
C30_InterfaceDeletedAfterTermination ==
    (pc = "v_ni_delete" /\ aloc.ni.attached /\ aloc.ni.state = "running")
        => (aloc.ni.terminate = "issued" /\ aloc.ni.wait = "completed")

\* C31: in destroy, with a vpc row, delete_internet_gateway is issued only in
\* an attempt whose detach succeeded or was answered Gateway.NotAttached; a
\* gateway row gets at most MaxRetries attempts; and a row none of whose
\* attempts got past the detach ends with no gateway delete issued, the walk
\* going on without raising.
C31_GatewayDeleteAfterDetach ==
    /\ (pc = "d_igw_delete" /\ rows_of("vpc") # << >>)
           => dloc.detach \in {"ok", "Gateway.NotAttached"}
    /\ pc \in {"d_igw", "d_igw_delete"} => dloc.attempt < MaxRetries
    /\ dloc.igw.attempts <= MaxRetries
    /\ (dloc.igw.result # "" /\ dloc.igw.passed = 0 /\ rows_of("vpc") # << >>)
           => /\ dloc.igw.result = "detach_refused"
              /\ dloc.igw.attempts = MaxRetries
              /\ dloc.igw.deletes = 0
              /\ pc = "d_igw"
              /\ outcome = "running"

\* Every one of the MaxRetries detaches of a gateway was refused: no delete
\* of the gateway was issued and the walk is still running.
C31_DetachNeverPassed ==
    /\ dloc.igw.result = "detach_refused"
    /\ dloc.igw.passed = 0
    /\ rows_of("vpc") # << >>
    /\ pc = "d_igw"

\* C32: when create_vpc or create_alb, invoked again for a deployment id,
\* does not reuse the recorded object because the probe of it failed and
\* creates a new one, then after it returned get_resource_by_type gives, for
\* the deployment and the type, the identifier of the object just created.
C32_LookupGivesNewObject ==
    (loc.caller = "direct" /\ pc = "ret" /\ runs.again = loc.stage) =>
        /\ (loc.stage = "create_vpc" /\ Issued("create_vpc") # {})
              => get_resource_by_type(resources, loc.dep, "vpc").resource_id
                     = loc.vpc_id
        /\ (loc.stage = "create_alb" /\ Issued("create_load_balancer") # {})
              => get_resource_by_type(resources, loc.dep, "alb").resource_id
                     = loc.alb_arn

\* C33: when a destroy walk has completed, a teardown call was issued for
\* the type of every resource row the deployment had when the walk started.
C33_EveryRowTornDown ==
    (pc = "idle" /\ outcome = "destroyed") =>
        \A k \in 1..Len(dloc.rows): dloc.rows[k].resource_type \in Range(dlog)

\* C34: every resource row of the Store carries the deployment id of a
\* deployment row of the Store.
C34_RowsAreOwned ==
    \A k \in 1..Len(resources):
        \E i \in 1..Len(deployments):
            deployments[i].deployment_id = resources[k].deployment_id

\* destroy_all ended and left the rows of a deploy that had failed, with
\* the deployment row that owns them.
C34_FailedRowsLeft ==
    /\ pc = "idle"
    /\ outcome = "destroy_all_done"
    /\ resources # << >>
    /\ runs.deploy = 0

\* The keys under which deploy keeps the resources of an environment.
Keys14 ==
    {"vpc_id", "igw_id", "subnet_ids", "alb_sg_id", "ec2_sg_id",
     "launch_template_id", "target_group_arn", "alb_arn", "alb_dns", "asg_name"}

\* C35: a deploy of the state-file deployer for an environment whose
\* persisted state holds every resource key issues no mutating provider call
\* and ends by reporting the status, without raising.
C35_RerunWithFullState ==
    (/\ deployer.command = "deploy"
     /\ deployer.pc = "idle"
     /\ Keys14 \subseteq deployer.had)
        => /\ deployer.calls = {}
           /\ deployer.outcome = "status_shown"

\* The identifiers state.json holds for an environment.
Persisted(env) ==
    LET st == load_state(state_file, env)
    IN  UNION {IF st[k].py = "list" THEN {st[k].v[i].v: i \in 1..Len(st[k].v)}
               ELSE {st[k].v}: k \in DOMAIN st}

\* C36: whenever a deploy of the state-file deployer has aborted, the
\* identifier of every VPC, gateway, security group and load balancer it
\* created at the provider is in the persisted state of its environment.
C36_CreatedIsPersisted ==
    (deployer.command = "deploy" /\ deployer.outcome = "raised") =>
        \A o \in deployer.created:
            o.type \in {"vpc", "internet_gateway", "security_group", "alb"}
                => o.id \in Persisted(deployer.env)

DestroyResets ==
    /\ (deployer.command = "destroy" /\ deployer.pc = "idle")
           => /\ deployer.outcome = "destroyed"
              /\ deployer.env \in DOMAIN state_file
              /\ load_state(state_file, deployer.env) = NoState
    /\ (deployer.command = "status" /\ deployer.pc = "idle" /\ deployer.had = {})
           => deployer.outcome = "no_deployment"

\* C38: whatever ClientError answers its delete calls get, a destroy of the
\* state-file deployer ends, and it ends with the empty state persisted for
\* the environment; a status called then reports no deployment.
C38_DestroyAlwaysResets ==
    /\ []DestroyResets
    /\ (deployer.command = "destroy" /\ deployer.pc # "idle")
           ~> (deployer.pc = "idle" /\ deployer.outcome = "destroyed")

\* A destroy ended for an environment that had every key, after a delete
\* call of it was answered with a ClientError.
C38_ResetAfterErrors ==
    /\ deployer.command = "destroy"
    /\ deployer.outcome = "destroyed"
    /\ deployer.error = "ClientError"
    /\ Keys14 \subseteq deployer.had
    /\ load_state(state_file, deployer.env) = NoState

\* A step that rewrote state.json did so for the environment of the running
\* deployer: the entry of every other environment is what it was, no entry
\* went away, and load_state reads back for the environment the state the
\* step saved.
SavedStep ==
    state_file' # state_file =>
        /\ DOMAIN state_file' = DOMAIN state_file \cup {deployer'.env}
        /\ \A e \in DOMAIN state_file \ {deployer'.env}:
               state_file'[e] = state_file[e]
        /\ load_state(state_file', deployer'.env) = deployer'.state

\* C39: save_state for an environment rewrites state.json with the entry of
\* every other environment unchanged, and load_state for the environment
\* gives back exactly what was last saved for it.
C39_SaveKeepsOtherEnvironments == [][SavedStep]_vars

\* Both environments have an entry with keys in state.json, and the running
\* deployer reads back the non-empty state it saved last.
C39_TwoEnvironmentsSaved ==
    /\ DOMAIN state_file = Envs14
    /\ \A e \in Envs14: load_state(state_file, e) # NoState
    /\ deployer.pc # "idle"
    /\ deployer.command = "deploy"
    /\ DOMAIN deployer.state # deployer.had
    /\ load_state(state_file, deployer.env) = deployer.state

\* The stress-ng processes that are running are the one stress_process
\* names, and stress_running says whether it names one.
StressTracked ==
    /\ app.stress_running <=> app.stress_process # 0
    /\ app.procs = IF app.stress_process = 0 THEN {} ELSE {app.stress_process}

\* C40: under any interleaving of start_stress and stop_stress calls there
\* is at most one stress process at a time; whenever stress_lock is free,
\* stress_running is true exactly when stress_process is set; and a
\* start_stress that found stress running started no process and returned
\* False.
C40_OneStressProcess ==
    /\ Cardinality(app.procs) <= 1
    /\ LockFree(app) => StressTracked
    /\ \A t \in Threads:
           (app.thread[t].op = "start" /\ app.thread[t].saw)
               => /\ ~app.thread[t].spawned
                  /\ app.thread[t].pc = "idle"
                  /\ app.thread[t].ret = "False"

\* A start_stress returned False because stress was running, started by
\* another thread's start_stress, while the lock is free again.
C40_SecondStartRefused ==
    /\ app.stress_lock = 0
    /\ app.stress_running
    /\ app.stress_process # 0
    /\ \E t, u \in Threads:
           /\ t # u
           /\ app.thread[t].op = "start" /\ app.thread[t].saw
           /\ app.thread[t].ret = "False"
           /\ app.thread[u].op = "start" /\ app.thread[u].ret = "True"
====
